---- MODULE Spec2Model ----
(***************************************************************************)
(* A model of the link-layer log analysis core of dash_meas_aio:           *)
(*   src/analysis/linkhelper.py  (UESTAT mobility tracker, process_logs)   *)
(*   src/analysis/asn1parse.py   (block router, tree parser, process_file) *)
(*                                                                         *)
(* Python strings are sequences of one-character strings, so that strip,   *)
(* split, startswith, "in", int() and iteration over a string are computed *)
(* and not assumed.  Python values that reach the tracker are tagged       *)
(* records (PyStr, PyDict, PyList, PyNone).  An optional integer field     *)
(* (Cell.physCellId, HOEvent.end, ...) is None == <<>> or Some(n) == <<n>>.*)
(***************************************************************************)
EXTENDS Integers, Sequences, FiniteSets, TLC

VARIABLES
    pcell,      \* UESTAT.pcell
    sCells,     \* UESTAT.sCells : cell index -> Cell
    ho_events,  \* UESTAT.ho_events
    entry,      \* the Entry handed to the last add_rrc call (None before the first)
    result,     \* how the last add_rrc call ended: "None", "-1" or the exception raised
    printed,    \* the messages the last add_rrc call printed
    ncalls,     \* number of add_rrc calls made so far
    packet,         \* parse_asn1_packet: lines
    lines_parsed,   \* parse_asn1_packet: lines_parsed
    parsed,         \* parse_asn1_packet: parsed
    packet_result,  \* parse_asn1_packet: result
    step,           \* parse_asn1_packet: the statement to run next
    raised,         \* the exception that left parse_asn1_packet ("" if none)
    sub,            \* the last sub-parser call: its name, begin and returned count
    raw_entries,    \* process_file / process_logs: the line groups of the file
    driver,         \* which of process_file and process_logs runs
    group_index,    \* number of groups the driver's loop has passed
    file_result,    \* process_file: result
    driver_raised,  \* the exception that left the driver ("" if none)
    returned,       \* the driver has returned
    log_lines,      \* _split_entries / get_entries: lines
    line_index,     \* _split_entries / get_entries: i
    current_entry,  \* _split_entries / get_entries: current_entry
    yielded,        \* the groups the segmenter has yielded so far
    split_done,     \* the segmenter's generator is exhausted
    pdu_lines,      \* parse_nested_pdu: lines (begin is 0)
    assembly,       \* parse_nested_pdu: i, stack, body and whether its loop broke
    nested_step,    \* parse_nested_pdu: the statement to run next
    nested_out,     \* parse_nested_pdu: what it returned and the root it filled
    passes          \* the values of successive _cleanup_empty_dict passes over body

trackerVars == <<pcell, sCells, ho_events, entry, result, printed, ncalls>>

routerVars == <<packet, lines_parsed, parsed, packet_result, step, raised, sub>>

driverVars == <<raw_entries, driver, group_index, file_result, driver_raised, returned>>

segmenterVars == <<log_lines, line_index, current_entry, yielded, split_done>>

nestedVars == <<pdu_lines, assembly, nested_step, nested_out, passes>>

vars ==
    <<pcell, sCells, ho_events, entry, result, printed, ncalls,
      packet, lines_parsed, parsed, packet_result, step, raised, sub,
      raw_entries, driver, group_index, file_result, driver_raised, returned,
      log_lines, line_index, current_entry, yielded, split_done,
      pdu_lines, assembly, nested_step, nested_out, passes>>

-----------------------------------------------------------------------------
(* Python values *)

None == <<>>

Some(x) == <<x>>

PyNone == [t |-> "none", v |-> <<>>]

PyStr(s) == [t |-> "str", v |-> s]

PyDict(items) == [t |-> "dict", v |-> items]

PyList(xs) == [t |-> "list", v |-> xs]

Digits == <<"0", "1", "2", "3", "4", "5", "6", "7", "8", "9">>

IsDigit(c) == \E k \in 1..10 : Digits[k] = c

DigitVal(c) == (CHOOSE k \in 1..10 : Digits[k] = c) - 1

RECURSIVE DecValue(_)
DecValue(s) ==
    IF s = <<>> THEN 0
    ELSE 10 * DecValue(SubSeq(s, 1, Len(s) - 1)) + DigitVal(s[Len(s)])

\* int(x): x a str of decimal digits gives its value; any other str is a
\* ValueError; a dict, list or None is a TypeError.
PyInt(x) ==
    IF x.t # "str" THEN [exc |-> "TypeError", val |-> 0]
    ELSE IF x.v # <<>> /\ \A k \in 1..Len(x.v) : IsDigit(x.v[k])
         THEN [exc |-> "", val |-> DecValue(x.v)]
         ELSE [exc |-> "ValueError", val |-> 0]

\* target in k, for two strings
StrContains(k, target) ==
    \E i \in 0..(Len(k) - Len(target)) :
        SubSeq(k, i + 1, i + Len(target)) = target

DictHas(d, key) == \E k \in 1..Len(d.v) : d.v[k][1] = key

DictGet(d, key) == d.v[CHOOSE k \in 1..Len(d.v) : d.v[k][1] = key][2]

\* obj[key] for a string key
GetItem(obj, key) ==
    IF obj.t # "dict" THEN [exc |-> "TypeError", val |-> PyNone]
    ELSE IF DictHas(obj, key) THEN [exc |-> "", val |-> DictGet(obj, key)]
    ELSE [exc |-> "KeyError", val |-> PyNone]

\* the elements "for x in obj" visits
PyIter(obj) ==
    CASE obj.t = "dict" -> [exc |-> "", val |-> [k \in 1..Len(obj.v) |-> PyStr(obj.v[k][1])]]
      [] obj.t = "list" -> [exc |-> "", val |-> obj.v]
      [] obj.t = "str"  -> [exc |-> "", val |-> [k \in 1..Len(obj.v) |-> PyStr(<<obj.v[k]>>)]]
      [] OTHER          -> [exc |-> "TypeError", val |-> <<>>]

RECURSIVE FlattenSeq(_)
FlattenSeq(ss) ==
    IF ss = <<>> THEN <<>> ELSE Head(ss) \o FlattenSeq(Tail(ss))

\* json_find: the paths, in depth-first order, of every dict key that
\* contains target_key; lists are searched through, strings are not.
RECURSIVE json_find(_, _, _)
json_find(obj, target_key, path) ==
    CASE obj.t = "dict" ->
            FlattenSeq([k \in 1..Len(obj.v) |->
                (IF StrContains(obj.v[k][1], target_key)
                 THEN <<Append(path, obj.v[k][1])>> ELSE <<>>)
                \o json_find(obj.v[k][2], target_key, Append(path, obj.v[k][1]))])
      [] obj.t = "list" ->
            FlattenSeq([k \in 1..Len(obj.v) |->
                json_find(obj.v[k], target_key, Append(path, k - 1))])
      [] OTHER -> <<>>

RECURSIVE json_get(_, _)
json_get(obj, path) ==
    IF path = <<>> THEN obj
    ELSE IF obj.t = "dict" THEN json_get(DictGet(obj, Head(path)), Tail(path))
    ELSE json_get(obj.v[Head(path) + 1], Tail(path))

-----------------------------------------------------------------------------
(* linkhelper.py: Cell, HOEvent, UESTAT *)

Cell(idx, grp, pci, freq) ==
    [cellIndex |-> idx, cellGroup |-> grp, physCellId |-> pci, dlCarrierFreq |-> freq]

HOEvent(begin, hoType, end, added, removed) ==
    [begin |-> begin, hoType |-> hoType, end |-> end,
     added_cells |-> added, removed_cells |-> removed]

scg_rev == <<"r","1","0">>

mcg_freq_rev == <<"v","9","e","0">>

SCG_ADD_KEY == <<"s","C","e","l","l","T","o","A","d","d","M","o","d","L","i","s","t">>

SCG_REL_KEY == <<"s","C","e","l","l","T","o","R","e","l","e","a","s","e","L","i","s","t">>

MCG_HO_KEY == <<"m","o","b","i","l","i","t","y","C","o","n","t","r","o","l","I","n","f","o">>

HO_TYPE_KEY == <<"h","a","n","d","o","v","e","r","T","y","p","e">>

INTRA_SCG == <<"i","n","t","r","a","S","C","G">>

PDU_KEY == <<"I","n","t","e","r","p","r","e","t","e","d"," ","P","D","U">>

RECONF_COMPLETE == <<"U","L","_","D","C","C","H"," ","/"," ","R","R","C","C","o","n","n","e","c","t","i","o","n","R","e","c","o","n","f","i","g","u","r","a","t","i","o","n","C","o","m","p","l","e","t","e">>

RECONF == <<"D","L","_","D","C","C","H"," ","/"," ","R","R","C","C","o","n","n","e","c","t","i","o","n","R","e","c","o","n","f","i","g","u","r","a","t","i","o","n">>

TARGET_PCI_KEY == <<"t","a","r","g","e","t","P","h","y","s","C","e","l","l","I","d">>

CARRIER_FREQ_KEY == <<"c","a","r","r","i","e","r","F","r","e","q","-">> \o mcg_freq_rev

DL_CARRIER_FREQ_KEY == <<"d","l","-","C","a","r","r","i","e","r","F","r","e","q","-">> \o mcg_freq_rev

SCELL_INDEX_KEY == <<"s","C","e","l","l","I","n","d","e","x","-">> \o scg_rev

CELL_ID_KEY == <<"c","e","l","l","I","d","e","n","t","i","f","i","c","a","t","i","o","n","-">> \o scg_rev

PHYS_CELL_ID_KEY == <<"p","h","y","s","C","e","l","l","I","d","-">> \o scg_rev

SCELL_DL_FREQ_KEY == <<"d","l","-","C","a","r","r","i","e","r","F","r","e","q","-">> \o scg_rev

\* a[k1][k2] read as an int
IntAt(obj, key) ==
    LET r == GetItem(obj, key)
    IN  IF r.exc # "" THEN [exc |-> r.exc, val |-> 0] ELSE PyInt(r.val)

\* UESTAT.mcg_ho: the new primary cell, or the exception raised before
\* self.pcell is assigned.
mcg_ho(data) ==
    LET pci == IntAt(data, TARGET_PCI_KEY)
        cf  == GetItem(data, CARRIER_FREQ_KEY)
        frq == IF cf.exc # "" THEN [exc |-> cf.exc, val |-> 0]
               ELSE IntAt(cf.val, DL_CARRIER_FREQ_KEY)
    IN  IF pci.exc # "" THEN [exc |-> pci.exc, pcell |-> None]
        ELSE IF frq.exc # "" THEN [exc |-> frq.exc, pcell |-> None]
        ELSE [exc |-> "", pcell |-> Some(Cell(None, "mcg", Some(pci.val), Some(frq.val)))]

\* The body of add_scg's loop for the k-th value of data.items(), on
\* acc = [exc, sCells, added, printed].
RECURSIVE add_scg_loop(_, _, _)
add_scg_loop(mods, k, acc) ==
    IF k > Len(mods) \/ acc.exc # "" THEN acc
    ELSE
    LET mod == mods[k]
        cid == IntAt(mod, SCELL_INDEX_KEY)
    IN  IF cid.exc # "" THEN [acc EXCEPT !.exc = cid.exc]
        ELSE
        IF DictHas(mod, CELL_ID_KEY)
        THEN LET cidblock == DictGet(mod, CELL_ID_KEY)
                 pci == IntAt(cidblock, PHYS_CELL_ID_KEY)
                 frq == IntAt(cidblock, SCELL_DL_FREQ_KEY)
             IN  IF pci.exc # "" THEN [acc EXCEPT !.exc = pci.exc]
                 ELSE IF frq.exc # "" THEN [acc EXCEPT !.exc = frq.exc]
                 ELSE add_scg_loop(mods, k + 1,
                        [exc |-> "",
                         sCells |-> (cid.val :> Cell(Some(cid.val), "scg", Some(pci.val), Some(frq.val)))
                                    @@ acc.sCells,
                         added |-> Append(acc.added, Some(cid.val)),
                         printed |-> Append(acc.printed, <<"Added SCG", cid.val, pci.val, frq.val>>)])
        ELSE add_scg_loop(mods, k + 1,
                [acc EXCEPT !.printed = Append(@, <<"Warning: adding scg w/o new config.", cid.val>>)])

\* UESTAT.add_scg(data) on the secondary cells sc: [exc, sCells, added, printed]
add_scg(data, sc) ==
    IF data.t # "dict"
    THEN [exc |-> "AttributeError", sCells |-> sc, added |-> <<>>, printed |-> <<>>]
    ELSE add_scg_loop([k \in 1..Len(data.v) |-> data.v[k][2]], 1,
                      [exc |-> "", sCells |-> sc, added |-> <<>>, printed |-> <<>>])

\* The body of rel_scg's loop for the k-th element the iteration over data
\* visits, on acc = [exc, sCells, removed, printed].
RECURSIVE rel_scg_loop(_, _, _)
rel_scg_loop(elems, k, acc) ==
    IF k > Len(elems) \/ acc.exc # "" THEN acc
    ELSE
    LET cid == PyInt(elems[k])
    IN  IF cid.exc # "" THEN [acc EXCEPT !.exc = cid.exc]
        ELSE IF cid.val \in DOMAIN acc.sCells
        THEN rel_scg_loop(elems, k + 1,
                [exc |-> "",
                 sCells |-> [i \in (DOMAIN acc.sCells) \ {cid.val} |-> acc.sCells[i]],
                 removed |-> Append(acc.removed, Some(cid.val)),
                 printed |-> Append(acc.printed, <<"Released SCG", cid.val>>)])
        ELSE rel_scg_loop(elems, k + 1,
                [exc |-> "",
                 sCells |-> acc.sCells,
                 removed |-> Append(acc.removed, Some(cid.val)),
                 printed |-> acc.printed
                             \o << <<"Warning: Release scg not found in sCells.", cid.val>>,
                                   <<"Released SCG", cid.val>> >>])

\* UESTAT.rel_scg(data) on the secondary cells sc: [exc, sCells, removed, printed]
rel_scg(data, sc) ==
    LET it == PyIter(data)
    IN  IF it.exc # ""
        THEN [exc |-> it.exc, sCells |-> sc, removed |-> <<>>, printed |-> <<>>]
        ELSE rel_scg_loop(it.val, 1,
                [exc |-> "", sCells |-> sc, removed |-> <<>>, printed |-> <<>>])

\* The tracker state add_rrc leaves when it stops with `res` (the value
\* returned or the exception raised) after printing `pr`.
Outcome(pc, sc, evs, res, pr) ==
    [pcell |-> pc, sCells |-> sc, ho_events |-> evs, result |-> res, printed |-> pr]

\* add_rrc, the Reconfiguration-Complete branch
close_last(evs, e) ==
    IF e.log_name = RECONF_COMPLETE /\ evs # <<>> /\ evs[Len(evs)].end = None
    THEN [evs EXCEPT ![Len(evs)].end = Some(e.ts_ms)]
    ELSE evs

\* add_rrc: list(json_get(data_pdu, ho_type_path[0]).keys())[0]
first_key(obj) ==
    IF obj.t # "dict" THEN [exc |-> "AttributeError", val |-> <<>>]
    ELSE IF obj.v = <<>> THEN [exc |-> "IndexError", val |-> <<>>]
    ELSE [exc |-> "", val |-> obj.v[1][1]]

\* add_rrc: for p in paths: removed_cells.extend(self.rel_scg(json_get(data_pdu, p)))
RECURSIVE release_all(_, _, _, _)
release_all(data_pdu, paths, k, acc) ==
    IF k > Len(paths) \/ acc.exc # "" THEN acc
    ELSE LET r == rel_scg(json_get(data_pdu, paths[k]), acc.sCells)
         IN  release_all(data_pdu, paths, k + 1,
                [exc |-> r.exc, sCells |-> r.sCells,
                 removed |-> acc.removed \o r.removed,
                 printed |-> acc.printed \o r.printed])

\* add_rrc: for p in paths: added_cells.extend(self.add_scg(json_get(data_pdu, p)))
RECURSIVE add_all(_, _, _, _)
add_all(data_pdu, paths, k, acc) ==
    IF k > Len(paths) \/ acc.exc # "" THEN acc
    ELSE LET r == add_scg(json_get(data_pdu, paths[k]), acc.sCells)
         IN  add_all(data_pdu, paths, k + 1,
                [exc |-> r.exc, sCells |-> r.sCells,
                 added |-> acc.added \o r.added,
                 printed |-> acc.printed \o r.printed])

\* Mutant of open_event: the new event is appended without closing an open
\* previous one.
open_event_noclose(evs, e, ho_type, added, removed) ==
    IF added = <<>> /\ removed = <<>> THEN [ho_events |-> evs, printed |-> <<>>]
    ELSE [ho_events |-> Append(evs, HOEvent(e.ts_ms,
                                  IF ho_type = None THEN INTRA_SCG ELSE ho_type[1],
                                  None, added, removed)),
          printed |-> <<>>]

\* Mutant of open_event: an open previous event is closed at its own begin
\* instead of the entry's timestamp.
open_event_close_at_begin(evs, e, ho_type, added, removed) ==
    IF added = <<>> /\ removed = <<>> THEN [ho_events |-> evs, printed |-> <<>>]
    ELSE
    LET open == evs # <<>> /\ evs[Len(evs)].end = None
        evs1 == IF open THEN [evs EXCEPT ![Len(evs)].end = Some(evs[Len(evs)].begin)]
                ELSE evs
    IN  [ho_events |-> Append(evs1, HOEvent(e.ts_ms,
                                  IF ho_type = None THEN INTRA_SCG ELSE ho_type[1],
                                  None, added, removed)),
         printed |-> IF open
                     THEN << <<"Warning: New HO event without a previous HO completion">> >>
                     ELSE <<>>]

\* add_rrc: if added_cells or removed_cells: force-close the open event
\* and append the new one.
open_event(evs, e, ho_type, added, removed) ==
    IF added = <<>> /\ removed = <<>> THEN [ho_events |-> evs, printed |-> <<>>]
    ELSE
    LET open == evs # <<>> /\ evs[Len(evs)].end = None
        evs1 == IF open THEN [evs EXCEPT ![Len(evs)].end = Some(e.ts_ms)] ELSE evs
        kind == IF ho_type = None THEN INTRA_SCG ELSE ho_type[1]
    IN  [ho_events |-> Append(evs1, HOEvent(e.ts_ms, kind, None, added, removed)),
         printed |-> IF open
                     THEN << <<"Warning: New HO event without a previous HO completion">> >>
                     ELSE <<>>]

\* Mutant of scg_part: the add lists are scanned before the release lists.
scg_part_add_first(pc, sc, evs, e, data_pdu, ho_type, added0, removed0) ==
    LET add == add_all(data_pdu, json_find(data_pdu, SCG_ADD_KEY, <<>>), 1,
                   [exc |-> "", sCells |-> sc, added |-> added0, printed |-> <<>>])
        rel == release_all(data_pdu, json_find(data_pdu, SCG_REL_KEY, <<>>), 1,
                   [exc |-> "", sCells |-> add.sCells, removed |-> removed0,
                    printed |-> add.printed])
        ev  == open_event(evs, e, ho_type, add.added, rel.removed)
    IN  IF add.exc # "" THEN Outcome(pc, add.sCells, evs, add.exc, add.printed)
        ELSE IF rel.exc # "" THEN Outcome(pc, rel.sCells, evs, rel.exc, rel.printed)
        ELSE Outcome(pc, rel.sCells, ev.ho_events, "None", rel.printed \o ev.printed)

\* add_rrc after the primary-cell part: release lists, then add lists, then
\* the event.
scg_part(pc, sc, evs, e, data_pdu, ho_type, added0, removed0) ==
    LET rel == release_all(data_pdu, json_find(data_pdu, SCG_REL_KEY, <<>>), 1,
                   [exc |-> "", sCells |-> sc, removed |-> removed0, printed |-> <<>>])
        add == add_all(data_pdu, json_find(data_pdu, SCG_ADD_KEY, <<>>), 1,
                   [exc |-> "", sCells |-> rel.sCells, added |-> added0,
                    printed |-> rel.printed])
        ev  == open_event(evs, e, ho_type, add.added, rel.removed)
    IN  IF rel.exc # "" THEN Outcome(pc, rel.sCells, evs, rel.exc, rel.printed)
        ELSE IF add.exc # "" THEN Outcome(pc, add.sCells, evs, add.exc, add.printed)
        ELSE Outcome(pc, add.sCells, ev.ho_events, "None", add.printed \o ev.printed)

\* Mutant of add_rrc: the removed primary cell id is read after mcg_ho has
\* replaced the primary cell.
add_rrc_removed_after(st, e) ==
    LET d == GetItem(e.data, PDU_KEY)
    IN  IF d.exc # "" THEN Outcome(st.pcell, st.sCells, st.ho_events, d.exc, <<>>)
        ELSE
        LET data_pdu == d.val
            evs == close_last(st.ho_events, e)
            paths == json_find(data_pdu, MCG_HO_KEY, <<>>)
        IN  IF paths = <<>>
            THEN scg_part(st.pcell, st.sCells, evs, e, data_pdu, None, <<>>, <<>>)
            ELSE
            LET m == mcg_ho(json_get(data_pdu, paths[1]))
                ho_type_path == json_find(data_pdu, HO_TYPE_KEY, <<>>)
            IN  IF m.exc # "" THEN Outcome(st.pcell, st.sCells, evs, m.exc, <<>>)
                ELSE IF ho_type_path = <<>>
                THEN Outcome(m.pcell[1], st.sCells, evs, "-1",
                             << <<"Error: handover type not found">> >>)
                ELSE
                LET ho_type == first_key(json_get(data_pdu, ho_type_path[1]))
                IN  IF ho_type.exc # ""
                    THEN Outcome(m.pcell[1], st.sCells, evs, ho_type.exc, <<>>)
                    ELSE scg_part(m.pcell[1], st.sCells, evs, e, data_pdu,
                                  Some(ho_type.val),
                                  <<m.pcell[1].physCellId>>, <<m.pcell[1].physCellId>>)

\* UESTAT.add_rrc(entry) on the tracker state st = [pcell, sCells, ho_events]
add_rrc(st, e) ==
    LET d == GetItem(e.data, PDU_KEY)
    IN  IF d.exc # "" THEN Outcome(st.pcell, st.sCells, st.ho_events, d.exc, <<>>)
        ELSE
        LET data_pdu == d.val
            evs == close_last(st.ho_events, e)
            paths == json_find(data_pdu, MCG_HO_KEY, <<>>)
        IN  IF paths = <<>>
            THEN scg_part(st.pcell, st.sCells, evs, e, data_pdu, None, <<>>, <<>>)
            ELSE
            LET m == mcg_ho(json_get(data_pdu, paths[1]))
                ho_type_path == json_find(data_pdu, HO_TYPE_KEY, <<>>)
            IN  IF m.exc # "" THEN Outcome(st.pcell, st.sCells, evs, m.exc, <<>>)
                ELSE IF ho_type_path = <<>>
                THEN Outcome(m.pcell[1], st.sCells, evs, "-1",
                             << <<"Error: handover type not found">> >>)
                ELSE
                LET ho_type == first_key(json_get(data_pdu, ho_type_path[1]))
                IN  IF ho_type.exc # ""
                    THEN Outcome(m.pcell[1], st.sCells, evs, ho_type.exc, <<>>)
                    ELSE scg_part(m.pcell[1], st.sCells, evs, e, data_pdu,
                                  Some(ho_type.val),
                                  <<m.pcell[1].physCellId>>, <<st.pcell.physCellId>>)

-----------------------------------------------------------------------------
(* The entries fed to the tracker: the trees the parser builds for         *)
(* reconfiguration messages, from small sets of cell ids and indices.      *)

\* What _cleanup_empty_dict leaves for a block of bare scalars (a release
\* list): the list of the scalars, collapsed to the scalar itself when
\* there is exactly one.
ScalarBlock(scalars) ==
    IF Len(scalars) = 1 THEN PyStr(scalars[1])
    ELSE PyList([k \in 1..Len(scalars) |-> PyStr(scalars[k])])

\* The filler key parse_nested_pdu gives the n-th anonymous element
FillerKey(n) == <<Digits[n + 1]>>

\* A block holding one anonymous brace element (an add/modify list with one
\* element): a dict with the element under the filler key "0".
AnonBlock(elem) == PyDict(<< <<FillerKey(0), elem>> >>)

\* One element of sCellToAddModList-r10, with or without cellIdentification
ModWithCell(idx, pci, freq) ==
    PyDict(<< <<SCELL_INDEX_KEY, PyStr(idx)>>,
              <<CELL_ID_KEY, PyDict(<< <<PHYS_CELL_ID_KEY, PyStr(pci)>>,
                                       <<SCELL_DL_FREQ_KEY, PyStr(freq)>> >>)>> >>)

ModNoCell(idx) == PyDict(<< <<SCELL_INDEX_KEY, PyStr(idx)>> >>)

MobilityControlInfo(pci, freq) ==
    PyDict(<< <<TARGET_PCI_KEY, PyStr(pci)>>,
              <<CARRIER_FREQ_KEY, PyDict(<< <<DL_CARRIER_FREQ_KEY, PyStr(freq)>> >>)>> >>)

INTRA_LTE == <<"i","n","t","r","a","L","T","E">>

SECURITY_CONFIG_HO == <<"s","e","c","u","r","i","t","y","C","o","n","f","i","g","H","O">>

KEY_CHANGE_INDICATOR == <<"k","e","y","C","h","a","n","g","e","I","n","d","i","c","a","t","o","r">>

RECONF_R8 == <<"r","r","c","C","o","n","n","e","c","t","i","o","n","R","e","c","o","n","f","i","g","u","r","a","t","i","o","n","-","r","8">>

SecurityConfigHO ==
    PyDict(<< <<HO_TYPE_KEY,
                PyDict(<< <<INTRA_LTE,
                            PyDict(<< <<KEY_CHANGE_INDICATOR, PyStr(<<"F","A","L","S","E">>)>> >>)>> >>)>> >>)

\* The Entry.data of an entry whose PDU carries the given optional parts
\* (None or Some(tree)), in the order the message lists them.
PduData(mci, sec, rel, add) ==
    PyDict(<< <<PDU_KEY,
        PyDict(<< <<RECONF_R8,
            PyDict(  (IF mci = None THEN <<>> ELSE << <<MCG_HO_KEY, mci[1]>> >>)
                  \o (IF sec = None THEN <<>> ELSE << <<SECURITY_CONFIG_HO, sec[1]>> >>)
                  \o (IF rel = None THEN <<>>
                      ELSE << <<SCG_REL_KEY \o <<"-">> \o scg_rev, rel[1]>> >>)
                  \o (IF add = None THEN <<>>
                      ELSE << <<SCG_ADD_KEY \o <<"-">> \o scg_rev, add[1]>> >>))>> >>)>> >>)

Idx4 == <<"4">>

Idx1 == <<"1">>

Idx14 == <<"1", "4">>

Pci171 == <<"1", "7", "1">>

Pci30 == <<"3", "0">>

Freq5230 == <<"5", "2", "3", "0">>

Freq66 == <<"6", "6">>

Mci171 == Some(MobilityControlInfo(Pci171, Freq5230))

Mci30 == Some(MobilityControlInfo(Pci30, Freq66))

\* mobilityControlInfo without the carrierFreq-v9e0 extension
MciNoFreq == Some(PyDict(<< <<TARGET_PCI_KEY, PyStr(Pci171)>> >>))

Sec == Some(SecurityConfigHO)

Rel(idxs) == Some(ScalarBlock(idxs))

Add(mod) == Some(AnonBlock(mod))

\* Bodies of DL_DCCH / RRCConnectionReconfiguration entries
ReconfBodies ==
    { PduData(None, None, None, None),
      PduData(None, None, None, Add(ModWithCell(Idx4, Pci171, Freq5230))),
      PduData(None, None, None, Add(ModWithCell(Idx14, Pci30, Freq66))),
      PduData(None, None, None, Add(ModWithCell(Idx1, Pci30, Freq66))),
      PduData(None, None, None, Add(ModNoCell(Idx4))),
      PduData(None, None, Rel(<<Idx4>>), None),
      PduData(None, None, Rel(<<Idx14>>), None),
      PduData(None, None, Rel(<<Idx1, Idx4>>), None),
      PduData(None, None, Rel(<<Idx4>>), Add(ModWithCell(Idx4, Pci30, Freq66))),
      PduData(Mci171, Sec, None, None),
      PduData(Mci30, Sec, None, None),
      PduData(Mci171, None, None, None),
      PduData(Mci171, None, Rel(<<Idx4>>), Add(ModWithCell(Idx4, Pci30, Freq66))),
      PduData(Mci30, Sec, Rel(<<Idx4>>), Add(ModWithCell(Idx4, Pci30, Freq66))),
      PduData(MciNoFreq, Sec, None, None),
      PyNone,
      PyDict(<<>>) }

\* Bodies of UL_DCCH / RRCConnectionReconfigurationComplete entries
CompleteBodies ==
    { PduData(None, None, None, None),
      PduData(None, None, None, Add(ModWithCell(Idx4, Pci171, Freq5230))),
      PyNone }

\* Milliseconds between an entry and the one before it
ReconfDeltas == {20}

CompleteDeltas == {20, 50}

MaxCalls == 3

MkEntry(name, ts, data) == [log_name |-> name, ts_ms |-> ts, data |-> data]

-----------------------------------------------------------------------------
(* The tracker as process_logs drives it *)

\* UESTAT.__init__
TrackerInit ==
    /\ pcell = Cell(None, "mcg", None, None)
    /\ sCells = <<>>
    /\ ho_events = <<>>
    /\ entry = None
    /\ result = "None"
    /\ printed = <<>>
    /\ ncalls = 0

NoCall == [fn |-> "", begin |-> 0, n |-> 0]

\* No packet is being parsed
RouterIdle ==
    /\ packet = <<>>
    /\ lines_parsed = 0
    /\ parsed = 0
    /\ packet_result = PyDict(<<>>)
    /\ step = "idle"
    /\ raised = ""
    /\ sub = NoCall

\* No file is being processed
DriverIdle ==
    /\ raw_entries = <<>>
    /\ driver = ""
    /\ group_index = 0
    /\ file_result = <<>>
    /\ driver_raised = ""
    /\ returned = FALSE

\* No file is being split into groups
SegmenterIdle ==
    /\ log_lines = <<>>
    /\ line_index = 0
    /\ current_entry = <<>>
    /\ yielded = <<>>
    /\ split_done = FALSE

\* No PDU is being parsed on its own
NestedIdle ==
    /\ pdu_lines = <<>>
    /\ assembly = [i |-> 0, stack |-> <<>>, body |-> PyDict(<<>>), stop |-> FALSE]
    /\ nested_step = "idle"
    /\ nested_out = [exc |-> "", n |-> 0, root |-> PyDict(<<>>)]
    /\ passes = <<>>

Init == TrackerInit /\ RouterIdle /\ DriverIdle /\ SegmenterIdle /\ NestedIdle

Now == IF entry = None THEN 0 ELSE entry[1].ts_ms

Assign(r, e) ==
    /\ pcell' = r.pcell
    /\ sCells' = r.sCells
    /\ ho_events' = r.ho_events
    /\ result' = r.result
    /\ printed' = r.printed
    /\ entry' = Some(e)
    /\ ncalls' = ncalls + 1
    /\ UNCHANGED routerVars
    /\ UNCHANGED driverVars
    /\ UNCHANGED segmenterVars
    /\ UNCHANGED nestedVars

Call(e) ==
    Assign(add_rrc([pcell |-> pcell, sCells |-> sCells, ho_events |-> ho_events], e), e)

\* process_logs stops at the first exception: nothing catches it.
Running == ncalls < MaxCalls /\ result \in {"None", "-1"}

AddReconfiguration ==
    /\ Running
    /\ \E d \in ReconfDeltas, b \in ReconfBodies : Call(MkEntry(RECONF, Now + d, b))

AddComplete ==
    /\ Running
    /\ \E d \in CompleteDeltas, b \in CompleteBodies : Call(MkEntry(RECONF_COMPLETE, Now + d, b))

Next == AddReconfiguration \/ AddComplete

Spec == Init /\ [][Next]_vars

-----------------------------------------------------------------------------
(* Properties of the tracker *)

Range(seq) == {seq[k] : k \in 1..Len(seq)}

\* The step is an add_rrc call (every step of Spec is one)
IsCall == ncalls' = ncalls + 1

HasPdu(e) == GetItem(e.data, PDU_KEY).exc = ""

\* The substructures of e's PDU whose key contains `key`
Found(e, key) ==
    IF HasPdu(e)
    THEN LET pdu == GetItem(e.data, PDU_KEY).val
             paths == json_find(pdu, key, <<>>)
         IN  [k \in 1..Len(paths) |-> json_get(pdu, paths[k])]
    ELSE <<>>

\* The add/modify-list elements of e that carry a cell identification block
CellMods(e) ==
    UNION { IF v.t = "dict"
            THEN { v.v[k][2] : k \in { j \in 1..Len(v.v) : DictHas(v.v[j][2], CELL_ID_KEY) } }
            ELSE {}
          : v \in Range(Found(e, SCG_ADD_KEY)) }

ModIdx(m) == IntAt(m, SCELL_INDEX_KEY).val

ModPci(m) == IntAt(DictGet(m, CELL_ID_KEY), PHYS_CELL_ID_KEY).val

ModFreq(m) == IntAt(DictGet(m, CELL_ID_KEY), SCELL_DL_FREQ_KEY).val

\* The indices the release lists of e name: a block that holds one scalar
\* names that one index.
ReleaseIndices(e) ==
    UNION { IF v.t = "str" THEN {PyInt(v).val}
            ELSE IF v.t = "list" THEN {PyInt(v.v[k]).val : k \in 1..Len(v.v)}
            ELSE {}
          : v \in Range(Found(e, SCG_REL_KEY)) }

LastEvent == ho_events[Len(ho_events)]

\* C1 (as claimed): after add_rrc has processed a Reconfiguration entry, the
\* event it opened lists, for every add/modify-list element with a cell
\* identification block, that block's physical-cell-id in added_cells.
C1_AddedCellsListPhysCellId ==
    (entry # None /\ entry[1].log_name = RECONF /\ result = "None") =>
        \A m \in CellMods(entry[1]) :
            /\ ho_events # <<>>
            /\ LastEvent.begin = entry[1].ts_ms
            /\ Some(ModPci(m)) \in Range(LastEvent.added_cells)

\* C2 (as claimed): a call for a Reconfiguration-Complete entry with
\* timestamp t sets the end of the last event to t when that event is open,
\* and changes the end of no other event.
C2_CompleteClosesOpenEvent ==
    [][ (IsCall /\ entry'[1].log_name = RECONF_COMPLETE) =>
            LET n == Len(ho_events)
            IN  /\ Len(ho_events') >= n
                /\ \A k \in 1..n :
                      ho_events'[k].end =
                          IF k = n /\ ho_events[n].end = None
                          THEN Some(entry'[1].ts_ms)
                          ELSE ho_events[k].end ]_vars

\* C3: at most one event has end = None, and it is the last one.
C3_OnlyLastEventOpen ==
    \A k \in 1..Len(ho_events) : ho_events[k].end = None => k = Len(ho_events)

C3_Witness ==
    /\ Len(ho_events) >= 2
    /\ LastEvent.end = None
    /\ ho_events[1].end # None

\* C4: a call that appends an event while the last event is open closes that
\* event at the entry's timestamp, keeps every earlier event as it was,
\* appends the new event (begin = t, end = None) and returns normally.
C4_ForceCloseOnOpen ==
    [][ (IsCall /\ Len(ho_events') = Len(ho_events) + 1
         /\ ho_events # <<>> /\ LastEvent.end = None) =>
            LET n == Len(ho_events)
                t == entry'[1].ts_ms
            IN  /\ result' = "None"
                /\ ho_events'[n] = [ho_events[n] EXCEPT !.end = Some(t)]
                /\ \A k \in 1..(n - 1) : ho_events'[k] = ho_events[k]
                /\ ho_events'[n + 1].begin = t
                /\ ho_events'[n + 1].end = None ]_vars

C4_Witness ==
    /\ entry # None
    /\ entry[1].log_name = RECONF
    /\ Len(ho_events) >= 2
    /\ <<"Warning: New HO event without a previous HO completion">> \in Range(printed)
    /\ ho_events[Len(ho_events) - 1].end = Some(entry[1].ts_ms)
    /\ LastEvent.begin = entry[1].ts_ms
    /\ LastEvent.end = None

\* C5 (as claimed): a call for a Reconfiguration entry that carries
\* mobility-control-info but no handover type leaves pcell, sCells and
\* ho_events as they were.
C5_MissingHandoverTypeSkipsUpdate ==
    [][ (IsCall /\ entry'[1].log_name = RECONF
         /\ Found(entry'[1], MCG_HO_KEY) # <<>>
         /\ Found(entry'[1], HO_TYPE_KEY) = <<>>) =>
            /\ pcell' = pcell
            /\ sCells' = sCells
            /\ ho_events' = ho_events ]_vars

\* C6 (as claimed): a call for a Reconfiguration entry that only releases
\* indices that are not keys of sCells does not raise and leaves sCells as
\* it was.
C6_ReleaseUntrackedKeepsSCells ==
    [][ (IsCall /\ entry'[1].log_name = RECONF
         /\ Found(entry'[1], MCG_HO_KEY) = <<>>
         /\ Found(entry'[1], SCG_ADD_KEY) = <<>>
         /\ ReleaseIndices(entry'[1]) # {}
         /\ ReleaseIndices(entry'[1]) \cap DOMAIN sCells = {}) =>
            /\ result' = "None"
            /\ sCells' = sCells ]_vars

IsReleased(msg) == Len(msg) = 2 /\ msg[1] = "Released SCG"

IsAdded(msg) == Len(msg) = 4 /\ msg[1] = "Added SCG"

-----------------------------------------------------------------------------
(* Python string methods, on sequences of characters *)

IsSpace(c) == c \in {" ", "\t", "\n", "\r"}

RECURSIVE LStrip(_)
LStrip(s) == IF s # <<>> /\ IsSpace(Head(s)) THEN LStrip(Tail(s)) ELSE s

RECURSIVE RStrip(_)
RStrip(s) ==
    IF s # <<>> /\ IsSpace(s[Len(s)]) THEN RStrip(SubSeq(s, 1, Len(s) - 1)) ELSE s

\* s.strip()
Strip(s) == RStrip(LStrip(s))

\* s.rstrip(",")
RECURSIVE RStripComma(_)
RStripComma(s) ==
    IF s # <<>> /\ s[Len(s)] = "," THEN RStripComma(SubSeq(s, 1, Len(s) - 1)) ELSE s

\* s.startswith(p)
StartsWith(s, p) == Len(p) <= Len(s) /\ SubSeq(s, 1, Len(p)) = p

\* s.replace(old, new)
RECURSIVE Replace(_, _, _)
Replace(s, old, new) ==
    IF Len(s) < Len(old) THEN s
    ELSE IF StartsWith(s, old)
    THEN new \o Replace(SubSeq(s, Len(old) + 1, Len(s)), old, new)
    ELSE <<Head(s)>> \o Replace(Tail(s), old, new)

\* s.find(c) + 1 for a one-character c: 0 when c is not in s
IndexOf(s, c) ==
    IF \A k \in 1..Len(s) : s[k] # c THEN 0
    ELSE CHOOSE k \in 1..Len(s) : s[k] = c /\ \A j \in 1..(k - 1) : s[j] # c

\* The pieces of s around the separator at position k
CutAt(s, k) == <<SubSeq(s, 1, k - 1), SubSeq(s, k + 1, Len(s))>>

\* s.split(c, 1)
SplitOnce(s, c) == IF IndexOf(s, c) = 0 THEN <<s>> ELSE CutAt(s, IndexOf(s, c))

\* s.split(c)
RECURSIVE Split(_, _)
Split(s, c) ==
    IF IndexOf(s, c) = 0 THEN <<s>>
    ELSE <<CutAt(s, IndexOf(s, c))[1]>> \o Split(CutAt(s, IndexOf(s, c))[2], c)

-----------------------------------------------------------------------------
(* asn1parse.py: the tree parser *)

\* d[key] = val on a dict: an existing key keeps its place
DictSet(d, key, val) ==
    IF DictHas(d, key)
    THEN PyDict([k \in 1..Len(d.v) |-> IF d.v[k][1] = key THEN <<key, val>> ELSE d.v[k]])
    ELSE PyDict(Append(d.v, <<key, val>>))

\* The dict a stack entry refers to: the node of body at path
RECURSIVE NodeAt(_, _)
NodeAt(body, path) ==
    IF path = <<>> THEN body ELSE NodeAt(DictGet(body, Head(path)), Tail(path))

\* node[key] = {} for the node of body at path
RECURSIVE SetEmptyAt(_, _, _)
SetEmptyAt(body, path, key) ==
    IF path = <<>> THEN DictSet(body, key, PyDict(<<>>))
    ELSE DictSet(body, Head(path), SetEmptyAt(DictGet(body, Head(path)), Tail(path), key))

\* _get_indentation_level
get_indentation_level(line) ==
    IF LStrip(line) = <<>> THEN -1
    ELSE (Len(line) - Len(LStrip(line))) \div 2

\* _parse_pdu_line
parse_pdu_line(line) ==
    LET NotBrace(c) == c \notin {"{", "}"}
        NonEmpty(v) == v # <<>>
        strip_all(parts) == [k \in 1..Len(parts) |-> Strip(parts[k])]
        \* for part in colon_splits: values.extend(part.split(" ", 1))
        split_values(colon_splits) ==
            FlattenSeq([k \in 1..Len(colon_splits) |-> SplitOnce(colon_splits[k], " ")])
    IN  split_values(SelectSeq(strip_all(Split(RStripComma(Strip(SelectSeq(line, NotBrace))),
                                               ":")),
                               NonEmpty))

EMPTY_DICT == PyDict(<<>>)

\* _cleanup_empty_dict
RECURSIVE cleanup_empty_dict(_)
cleanup_empty_dict(d) ==
    LET IsEmptyDict(v) == v.t = "dict" /\ v.v = <<>>
    IN  IF \E k \in 1..Len(d.v) : IsEmptyDict(d.v[k][2])
        THEN IF Len(d.v) = 1 THEN PyStr(d.v[1][1])
             ELSE PyList([k \in 1..Len(d.v) |->
                     IF Len(d.v[k][2].v) = 0 THEN PyStr(d.v[k][1])
                     ELSE PyDict(<< <<d.v[k][1], cleanup_empty_dict(d.v[k][2])>> >>)])
        ELSE PyDict([k \in 1..Len(d.v) |-> <<d.v[k][1], cleanup_empty_dict(d.v[k][2])>>])

ASSIGN_MARK == <<":",":","=">>

ONE_SPACE == <<" ">>

\* chr(0x30 + n)
enumerate_key(n) ==
    <<(<<"0","1","2","3","4","5","6","7","8","9",":",";","<","=",">","?">>)[n + 1]>>

StackEntry(level, path) == [level |-> level, path |-> path]

Top(stack) == stack[Len(stack)]

\* pop_stack with the test stack[-1][0] > level: a sibling is not popped
RECURSIVE pop_stack_strict(_, _)
pop_stack_strict(stack, level) ==
    IF stack # <<>> /\ Top(stack).level > level
    THEN pop_stack_strict(SubSeq(stack, 1, Len(stack) - 1), level)
    ELSE stack

\* parse_nested_pdu: while stack and stack[-1][0] >= level: stack.pop()
RECURSIVE pop_stack(_, _)
pop_stack(stack, level) ==
    IF stack # <<>> /\ Top(stack).level >= level
    THEN pop_stack(SubSeq(stack, 1, Len(stack) - 1), level)
    ELSE stack

\* The parser state while the tree is assembled
Assembly(i, stack, body, stop) == [i |-> i, stack |-> stack, body |-> body, stop |-> stop]

\* fill_nesting with `if` for `while`: at most one filler key for a line
fill_nesting_once(stack, body, level) ==
    IF level - Top(stack).level > 1
    THEN [stack |-> Append(stack, StackEntry(Top(stack).level + 1,
                        Append(Top(stack).path,
                               enumerate_key(Len(NodeAt(body, Top(stack).path).v))))),
          body |-> SetEmptyAt(body, Top(stack).path,
                       enumerate_key(Len(NodeAt(body, Top(stack).path).v)))]
    ELSE [stack |-> stack, body |-> body]

\* parse_nested_pdu: while level - stack[-1][0] > 1: synthesize a filler key
RECURSIVE fill_nesting(_, _, _)
fill_nesting(stack, body, level) ==
    IF level - Top(stack).level > 1
    THEN fill_nesting(
            Append(stack, StackEntry(Top(stack).level + 1,
                        Append(Top(stack).path,
                               enumerate_key(Len(NodeAt(body, Top(stack).path).v))))),
            SetEmptyAt(body, Top(stack).path,
                       enumerate_key(Len(NodeAt(body, Top(stack).path).v))),
            level)
    ELSE [stack |-> stack, body |-> body]

\* parse_nested_pdu: for v in values: insert v under the stack top and push it
RECURSIVE push_values(_, _, _, _)
push_values(values, stack, body, level) ==
    IF values = <<>> THEN [stack |-> stack, body |-> body]
    ELSE push_values(Tail(values),
                     Append(stack, StackEntry(level, Append(Top(stack).path, Head(values)))),
                     SetEmptyAt(body, Top(stack).path, Head(values)),
                     level + 1)

\* nested_line with the line that empties the stack counted as consumed
nested_line_consuming(line, a) ==
    LET insert_line(filled, values, level) ==
            push_values(values, filled.stack, filled.body, level)
        consumed_line(ins) == Assembly(a.i + 1, ins.stack, ins.body, FALSE)
        after_pop(popped, values, level) ==
            IF popped = <<>> THEN Assembly(a.i + 1, popped, a.body, TRUE)
            ELSE consumed_line(insert_line(fill_nesting(popped, a.body, level), values, level))
        line_tokens(values, level) ==
            IF values = <<>> THEN Assembly(a.i + 1, a.stack, a.body, FALSE)
            ELSE after_pop(pop_stack(a.stack, level), values, level)
    IN  line_tokens(parse_pdu_line(line), get_indentation_level(line))

\* One pass of parse_nested_pdu's second loop, on line lines[a.i]
nested_line(line, a) ==
    LET insert_line(filled, values, level) ==
            push_values(values, filled.stack, filled.body, level)
        consumed_line(ins) == Assembly(a.i + 1, ins.stack, ins.body, FALSE)
        after_pop(popped, values, level) ==
            IF popped = <<>> THEN Assembly(a.i, popped, a.body, TRUE)
            ELSE consumed_line(insert_line(fill_nesting(popped, a.body, level), values, level))
        line_tokens(values, level) ==
            IF values = <<>> THEN Assembly(a.i + 1, a.stack, a.body, FALSE)
            ELSE after_pop(pop_stack(a.stack, level), values, level)
    IN  line_tokens(parse_pdu_line(line), get_indentation_level(line))

\* parse_nested_pdu's second loop
RECURSIVE nested_loop(_, _)
nested_loop(lines, a) ==
    IF a.i < Len(lines) /\ ~a.stop THEN nested_loop(lines, nested_line(lines[a.i + 1], a))
    ELSE a

\* What a sub-parser hands back: the exception it raised or the number of
\* lines it consumed, and the root mapping as it leaves it
Parsed(exc, n, root) == [exc |-> exc, n |-> n, root |-> root]

\* parse_nested_pdu's first loop: skip the lines without tokens; i is the
\* cursor after the loop and line the last line it read
RECURSIVE nested_header(_, _)
nested_header(lines, i) ==
    IF i >= Len(lines) THEN [i |-> i, line |-> <<>>, values |-> <<>>]
    ELSE IF parse_pdu_line(Replace(lines[i + 1], ASSIGN_MARK, ONE_SPACE)) = <<>>
    THEN nested_header(lines, i + 1)
    ELSE [i |-> i + 1, line |-> Replace(lines[i + 1], ASSIGN_MARK, ONE_SPACE),
          values |-> parse_pdu_line(Replace(lines[i + 1], ASSIGN_MARK, ONE_SPACE))]

\* parse_nested_pdu without the i -= 1 of the invalid-root branch: the
\* refused line is counted as consumed
parse_nested_pdu_consuming(lines, begin, root) ==
    LET nested_body(root_key, a) ==
            Parsed("", a.i - begin, DictSet(root, root_key, cleanup_empty_dict(a.body)))
        nested_root(h) ==
            IF Len(h.values) = 2
            THEN nested_body(h.values[2],
                    nested_loop(lines,
                        Assembly(h.i, <<StackEntry(get_indentation_level(h.line), <<>>)>>,
                                 EMPTY_DICT, FALSE)))
            ELSE IF begin >= Len(lines)
            THEN Parsed("UnboundLocalError", 0, root)
            ELSE Parsed("", h.i - begin, root)
    IN  nested_root(nested_header(lines, begin))

\* parse_nested_pdu(lines, begin, root)
parse_nested_pdu(lines, begin, root) ==
    LET nested_body(root_key, a) ==
            Parsed("", a.i - begin, DictSet(root, root_key, cleanup_empty_dict(a.body)))
        \* the invalid-root branch prints line, which no statement has set when
        \* the first loop did not run
        nested_root(h) ==
            IF Len(h.values) = 2
            THEN nested_body(h.values[2],
                    nested_loop(lines,
                        Assembly(h.i, <<StackEntry(get_indentation_level(h.line), <<>>)>>,
                                 EMPTY_DICT, FALSE)))
            ELSE IF begin >= Len(lines)
            THEN Parsed("UnboundLocalError", 0, root)
            ELSE Parsed("", (h.i - 1) - begin, root)
    IN  nested_root(nested_header(lines, begin))

-----------------------------------------------------------------------------
(* asn1parse.py: the sub-parsers of the block router *)

INTERPRETED_PDU_MARK == <<"I","n","t","e","r","p","r","e","t","e","d"," ","P","D","U",":">>

BOUNDARY == <<"=","=","=","=">>

FURTHER == <<"F","u","r","t","h","e","r">>

EXTRA_LINES == <<"e","x","t","r","a","_","l","i","n","e","s">>

\* root[key] = {}, then a parser run on root[key] from line i on
nested_under(root, key, offset, r) ==
    IF r.exc # "" THEN Parsed(r.exc, 0, root)
    ELSE Parsed("", r.n + offset, DictSet(root, key, r.root))

\* parse_interpreted_pdu(lines, begin, root)
parse_interpreted_pdu(lines, begin, root) ==
    LET \* the loop, with its cursor at i
        RECURSIVE interpreted_pdu_at(_)
        interpreted_pdu_at(i) ==
            IF i >= Len(lines) THEN Parsed("", i - begin, root)
            ELSE IF Strip(lines[i + 1]) = <<>> THEN interpreted_pdu_at(i + 1)
            ELSE IF StartsWith(Strip(lines[i + 1]), INTERPRETED_PDU_MARK)
            THEN nested_under(root, PDU_KEY, (i + 1) - begin,
                              parse_nested_pdu(lines, i + 1, EMPTY_DICT))
            ELSE Parsed("", i - begin, root)
    IN  interpreted_pdu_at(begin)

\* parse_further_decoding_pdu's first loop: match the three marker lines
RECURSIVE further_match(_, _, _, _)
further_match(lines, i, to_match, matched) ==
    IF i < Len(lines) /\ to_match # <<>>
    THEN IF Strip(lines[i + 1]) = <<>> THEN further_match(lines, i + 1, to_match, matched)
         ELSE IF ~StartsWith(Strip(lines[i + 1]), to_match[Len(to_match)])
         THEN [i |-> i, to_match |-> to_match, matched |-> matched]
         ELSE further_match(lines, i + 1, SubSeq(to_match, 1, Len(to_match) - 1),
                            Append(matched, Strip(lines[i + 1])))
    ELSE [i |-> i, to_match |-> to_match, matched |-> matched]

\* parse_further_decoding_pdu's second loop: look for the line that starts
\* the nested PDU; without one, roll back
RECURSIVE further_scan(_, _, _, _, _)
further_scan(lines, begin, i, root, matched) ==
    IF i >= Len(lines)
    THEN Parsed("", (i - Len(matched)) - begin, DictSet(root, matched[2], EMPTY_DICT))
    ELSE IF StrContains(lines[i + 1], ASSIGN_MARK)
    THEN nested_under(root, matched[2], i - begin, parse_nested_pdu(lines, i, EMPTY_DICT))
    ELSE IF StrContains(lines[i + 1], INTERPRETED_PDU_MARK)
    THEN nested_under(root, matched[2], i - begin, parse_interpreted_pdu(lines, i, EMPTY_DICT))
    ELSE further_scan(lines, begin, i + 1, root, matched)

TO_MATCH == <<BOUNDARY, FURTHER, BOUNDARY>>

\* parse_further_decoding_pdu(lines, begin, root)
parse_further_decoding_pdu(lines, begin, root) ==
    LET further_matched(m) ==
            IF m.to_match = <<>> THEN further_scan(lines, begin, m.i, root, m.matched)
            ELSE Parsed("", (m.i - Len(m.matched)) - begin, root)
    IN  further_matched(further_match(lines, begin, TO_MATCH, <<>>))

\* parse_value_pair_lines(lines, begin, root)
parse_value_pair_lines(lines, begin, root) ==
    LET \* values = part.split("="); if len(values) != 2: continue
        set_pair(values, res) ==
            IF Len(values) # 2 THEN res
            ELSE DictSet(res, Strip(values[1]), PyStr(Strip(values[2])))
        \* for part in parts
        RECURSIVE set_pairs(_, _)
        set_pairs(parts, res) ==
            IF parts = <<>> THEN res
            ELSE set_pairs(Tail(parts), set_pair(Split(Head(parts), "="), res))
        \* the loop, with its cursor at i
        RECURSIVE value_pair_lines_at(_, _)
        value_pair_lines_at(i, res) ==
            IF i >= Len(lines) THEN Parsed("", i - begin, res)
            ELSE IF Strip(lines[i + 1]) = <<>> THEN value_pair_lines_at(i + 1, res)
            ELSE IF \/ IndexOf(Strip(lines[i + 1]), "=") = 0
                    \/ StrContains(Strip(lines[i + 1]), BOUNDARY)
            THEN Parsed("", i - begin, res)
            ELSE value_pair_lines_at(i + 1, set_pairs(Split(Strip(lines[i + 1]), ","), res))
    IN  value_pair_lines_at(begin, root)

-----------------------------------------------------------------------------
(* asn1parse.py: parse_asn1_packet as a function of the body lines *)

\* What parse_asn1_packet gives: the exception that left it, or the mapping
Packet(exc, res) == [exc |-> exc, result |-> res]

\* lines[lines_parsed + 1:], the tail without the line under the cursor
lines_after(lines, n) == PyList([k \in 1..(Len(lines) - n - 1) |-> PyStr(lines[n + 1 + k])])

\* lines[lines_parsed:]
lines_from(lines, n) == PyList([k \in 1..(Len(lines) - n) |-> PyStr(lines[n + k])])

\* parse_asn1_packet from the loop test on, with lines_parsed = cursor
RECURSIVE router_loop(_, _, _)
router_loop(lines, cursor, res) ==
    LET \* after the loop
        router_tail(r) ==
            Packet("", IF cursor < Len(lines)
                       THEN DictSet(r, EXTRA_LINES, lines_from(lines, cursor))
                       ELSE r)
        after_further(n, r) ==
            IF r.exc # "" THEN Packet(r.exc, EMPTY_DICT)
            ELSE IF n + r.n = 0 THEN router_tail(r.root)
            ELSE router_loop(lines, cursor + n + r.n, r.root)
        after_interpreted(n, r) ==
            IF r.exc # "" THEN Packet(r.exc, EMPTY_DICT)
            ELSE after_further(n + r.n,
                               parse_further_decoding_pdu(lines, cursor + n + r.n, r.root))
        after_value_pairs(r) ==
            IF r.exc # "" THEN Packet(r.exc, EMPTY_DICT)
            ELSE after_interpreted(r.n, parse_interpreted_pdu(lines, cursor + r.n, r.root))
    IN  IF cursor < Len(lines)
        THEN after_value_pairs(parse_value_pair_lines(lines, cursor, res))
        ELSE router_tail(res)

\* parse_asn1_packet(lines)
parse_asn1_packet(lines) == router_loop(lines, 0, EMPTY_DICT)

-----------------------------------------------------------------------------
(* asn1parse.py: parse_asn1_packet, one action per statement of its loop *)

LINE_BLANK == <<>>

LINE_INTERPRETED == <<"I","n","t","e","r","p","r","e","t","e","d"," ","P","D","U",":">>

LINE_ROOT == <<"v","a","l","u","e"," ","X"," ",":",":","="," ">>

LINE_FIELD == <<" "," ","a"," ","1",",">>

LINE_BOUNDARY == <<"=","=","=","=">>

LINE_FURTHER == <<"F","u","r","t","h","e","r">>

LINE_PAIR == <<"k"," ","="," ","v">>

LINE_OTHER == <<"f","o","o">>

BodyLines ==
    {LINE_BLANK, LINE_INTERPRETED, LINE_ROOT, LINE_FIELD, LINE_BOUNDARY, LINE_FURTHER,
     LINE_PAIR, LINE_OTHER}

MaxLines == 4

Bodies == UNION {[1..n -> BodyLines] : n \in 0..MaxLines}

RouterInit ==
    /\ TrackerInit
    /\ DriverIdle
    /\ SegmenterIdle
    /\ NestedIdle
    /\ packet \in Bodies
    /\ lines_parsed = 0
    /\ parsed = 0
    /\ packet_result = EMPTY_DICT
    /\ step = "loop"
    /\ raised = ""
    /\ sub = NoCall

\* while lines_parsed < len(lines): parsed = 0
LoopTest ==
    /\ step = "loop"
    /\ IF lines_parsed < Len(packet)
       THEN parsed' = 0 /\ step' = "value_pair"
       ELSE parsed' = parsed /\ step' = "tail"
    /\ UNCHANGED <<packet, lines_parsed, packet_result, raised, sub>>
    /\ UNCHANGED trackerVars
    /\ UNCHANGED driverVars
    /\ UNCHANGED segmenterVars
    /\ UNCHANGED nestedVars

\* parsed += fn(lines, lines_parsed + parsed, result); an exception leaves
\* parse_asn1_packet
Return(fn, begin, r, next) ==
    /\ sub' = [fn |-> fn, begin |-> begin, n |-> r.n]
    /\ IF r.exc # ""
       THEN /\ raised' = r.exc
            /\ step' = "raised"
            /\ UNCHANGED <<parsed, packet_result>>
       ELSE /\ parsed' = parsed + r.n
            /\ packet_result' = r.root
            /\ step' = next
            /\ UNCHANGED raised
    /\ UNCHANGED <<packet, lines_parsed>>
    /\ UNCHANGED trackerVars
    /\ UNCHANGED driverVars
    /\ UNCHANGED segmenterVars
    /\ UNCHANGED nestedVars

ValuePairLines ==
    /\ step = "value_pair"
    /\ Return("parse_value_pair_lines", lines_parsed + parsed,
              parse_value_pair_lines(packet, lines_parsed + parsed, packet_result),
              "interpreted")

InterpretedPdu ==
    /\ step = "interpreted"
    /\ Return("parse_interpreted_pdu", lines_parsed + parsed,
              parse_interpreted_pdu(packet, lines_parsed + parsed, packet_result),
              "further")

FurtherDecodingPdu ==
    /\ step = "further"
    /\ Return("parse_further_decoding_pdu", lines_parsed + parsed,
              parse_further_decoding_pdu(packet, lines_parsed + parsed, packet_result),
              "advance")

\* lines_parsed += parsed, without the break on parsed == 0
AdvanceNoBreak ==
    /\ step = "advance"
    /\ lines_parsed' = lines_parsed + parsed
    /\ step' = "loop"
    /\ UNCHANGED <<packet, parsed, packet_result, raised, sub>>
    /\ UNCHANGED trackerVars
    /\ UNCHANGED driverVars
    /\ UNCHANGED segmenterVars
    /\ UNCHANGED nestedVars

\* lines_parsed += parsed; if parsed == 0: break
Advance ==
    /\ step = "advance"
    /\ lines_parsed' = lines_parsed + parsed
    /\ step' = IF parsed = 0 THEN "tail" ELSE "loop"
    /\ UNCHANGED <<packet, parsed, packet_result, raised, sub>>
    /\ UNCHANGED trackerVars
    /\ UNCHANGED driverVars
    /\ UNCHANGED segmenterVars
    /\ UNCHANGED nestedVars

\* if lines_parsed < len(lines): result["extra_lines"] = lines[lines_parsed:]
ExtraLines ==
    /\ step = "tail"
    /\ packet_result' =
          IF lines_parsed < Len(packet)
          THEN DictSet(packet_result, EXTRA_LINES, lines_from(packet, lines_parsed))
          ELSE packet_result
    /\ step' = "done"
    /\ UNCHANGED <<packet, lines_parsed, parsed, raised, sub>>
    /\ UNCHANGED trackerVars
    /\ UNCHANGED driverVars
    /\ UNCHANGED segmenterVars
    /\ UNCHANGED nestedVars

RouterNext ==
    \/ LoopTest
    \/ ValuePairLines
    \/ InterpretedPdu
    \/ FurtherDecodingPdu
    \/ Advance
    \/ ExtraLines

RouterSpec == RouterInit /\ [][RouterNext]_vars

-----------------------------------------------------------------------------
(* Properties of the block router *)

\* C8 (as claimed): parse_asn1_packet never raises, whatever the body.
C8_RouterNeverRaises == step # "raised" /\ raised = ""

\* No line of lines from index i on holds "::=" or "Interpreted PDU:"
NoTrigger(lines, i) ==
    \A k \in (i + 1)..Len(lines) :
        /\ ~StrContains(lines[k], ASSIGN_MARK)
        /\ ~StrContains(lines[k], INTERPRETED_PDU_MARK)

\* The further-decoding scan just made matched its three markers and found
\* no trigger line after them
FurtherWithoutTrigger ==
    /\ step = "advance"
    /\ sub.fn = "parse_further_decoding_pdu"
    /\ further_match(packet, sub.begin, TO_MATCH, <<>>).to_match = <<>>
    /\ NoTrigger(packet, further_match(packet, sub.begin, TO_MATCH, <<>>).i)

\* C10 (as claimed): when parse_further_decoding_pdu matches its three
\* marker lines and no later line holds "::=" or "Interpreted PDU:", it
\* returns 0.
C10_FurtherRollbackReturnsZero == FurtherWithoutTrigger => sub.n = 0

-----------------------------------------------------------------------------
(* parse_entry: the header line (asn1parse.py and linkhelper.py share the   *)
(* pattern)                                                                 *)

DIGIT == {"0", "1", "2", "3", "4", "5", "6", "7", "8", "9"}

UPPER == {"A", "B", "C", "D", "E", "F", "G", "H", "I", "J", "K", "L", "M", "N", "O", "P", "Q", "R", "S", "T", "U", "V", "W", "X", "Y", "Z"}

LOWER == {"a", "b", "c", "d", "e", "f", "g", "h", "i", "j", "k", "l", "m", "n", "o", "p", "q", "r", "s", "t", "u", "v", "w", "x", "y", "z"}

HEX == {"0", "1", "2", "3", "4", "5", "6", "7", "8", "9", "A", "B", "C", "D", "E", "F"}

\* One element of a pattern: between lo and hi characters of set, added to
\* capture group cap (0: not captured)
Elem(set, lo, hi, cap) == [set |-> set, lo |-> lo, hi |-> hi, cap |-> cap]

\* \s+
SPACES == Elem({" ", "\t", "\n", "\r"}, 1, 200, 0)

\* ^(\d{4})\s+([A-Z][a-z]{2})\s+(\d{1,2})\s+(\d{2}:\d{2}:\d{2}\.\d{3})\s+
\*  \[([0-9A-F]{2})\]\s+(0x[0-9A-F]{4})   -- the pattern up to \s+(.+)$
HEADER_PATTERN ==
    << Elem(DIGIT, 4, 4, 1), SPACES,
       Elem(UPPER, 1, 1, 2), Elem(LOWER, 2, 2, 2), SPACES,
       Elem(DIGIT, 1, 2, 3), SPACES,
       Elem(DIGIT, 2, 2, 4), Elem({":"}, 1, 1, 4), Elem(DIGIT, 2, 2, 4),
       Elem({":"}, 1, 1, 4), Elem(DIGIT, 2, 2, 4), Elem({"."}, 1, 1, 4),
       Elem(DIGIT, 3, 3, 4), SPACES,
       Elem({"["}, 1, 1, 0), Elem(HEX, 2, 2, 5), Elem({"]"}, 1, 1, 0), SPACES,
       Elem({"0"}, 1, 1, 6), Elem({"x"}, 1, 1, 6), Elem(HEX, 4, 4, 6) >>

\* How many characters of s from position p on (at most hi) are in set
RECURSIVE RunLength(_, _, _, _)
RunLength(s, p, set, hi) ==
    IF hi > 0 /\ p <= Len(s) /\ s[p] \in set THEN 1 + RunLength(s, p + 1, set, hi - 1) ELSE 0

\* The greedy match of pattern elements k.. on s from position p; groups
\* holds the text captured so far
RECURSIVE MatchFrom(_, _, _, _, _)
MatchFrom(s, p, pat, k, groups) ==
    LET captured(cap, text) ==
            IF cap = 0 THEN groups ELSE [groups EXCEPT ![cap] = @ \o text]
        matched_run(n) ==
            IF n < pat[k].lo THEN [ok |-> FALSE, p |-> p, groups |-> groups]
            ELSE MatchFrom(s, p + n, pat, k + 1,
                           captured(pat[k].cap, SubSeq(s, p, p + n - 1)))
    IN  IF k > Len(pat) THEN [ok |-> TRUE, p |-> p, groups |-> groups]
        ELSE matched_run(RunLength(s, p, pat[k].set, pat[k].hi))

\* re.match(pattern, line): ok and the seven groups. \s+(.+)$ ends the
\* pattern: the spaces give back their last character when nothing else is
\* left for (.+)
match_header(line) ==
    LET match_rest(m, n) ==
            IF ~m.ok \/ n = 0 THEN [ok |-> FALSE, groups |-> m.groups]
            ELSE IF m.p + n <= Len(line)
            THEN [ok |-> TRUE,
                  groups |-> [m.groups EXCEPT ![7] = SubSeq(line, m.p + n, Len(line))]]
            ELSE IF n >= 2
            THEN [ok |-> TRUE, groups |-> [m.groups EXCEPT ![7] = <<line[Len(line)]>>]]
            ELSE [ok |-> FALSE, groups |-> m.groups]
        header_tail(m) == match_rest(m, RunLength(line, m.p, SPACES.set, Len(line)))
    IN  header_tail(MatchFrom(line, 1, HEADER_PATTERN, 1,
                              <<<<>>, <<>>, <<>>, <<>>, <<>>, <<>>, <<>>>>))

\* is_timestamp_line(line), the test that starts a new group of lines:
\* ^\d{4}\s+[A-Z][a-z]{2}\s+\d{1,2}\s+\d{2}:\d{2}:\d{2}
is_timestamp_line(line) ==
    MatchFrom(line, 1,
              << Elem(DIGIT, 4, 4, 0), SPACES,
                 Elem(UPPER, 1, 1, 0), Elem(LOWER, 2, 2, 0), SPACES,
                 Elem(DIGIT, 1, 2, 0), SPACES,
                 Elem(DIGIT, 2, 2, 0), Elem({":"}, 1, 1, 0), Elem(DIGIT, 2, 2, 0),
                 Elem({":"}, 1, 1, 0), Elem(DIGIT, 2, 2, 0) >>,
              1, <<>>).ok

\* %b of strptime
MONTHS == <<<<"J","a","n">>, <<"F","e","b">>, <<"M","a","r">>, <<"A","p","r">>, <<"M","a","y">>, <<"J","u","n">>, <<"J","u","l">>, <<"A","u","g">>, <<"S","e","p">>, <<"O","c","t">>, <<"N","o","v">>, <<"D","e","c">>>>

\* int(seconds) * 1000 + microsecond: the fraction is added in microseconds
float_ms_micro(exact) == (exact \div 1000) * 1000 + (exact % 1000) * 1000

\* int(dt.timestamp() * 1000.0) for a time of exact milliseconds since the
\* epoch, exact < 2^31: timestamp() is exact / 1000 rounded to binary64, with
\* a 53-bit significand of unit 2^-f, and the product with 1000.0 is rounded
\* to binary64 again.  When the first rounding went down by rho / 1000 units,
\* the product is exact - rho * 2^-f, which the second rounding brings back to
\* exact unless it lies more than half a unit of exact below it; int() then
\* truncates to exact - 1.
float_ms(exact) ==
    LET RECURSIVE bit_length(_)
        bit_length(n) == IF n = 0 THEN 0 ELSE 1 + bit_length(n \div 2)
        RECURSIVE pow2(_)
        pow2(n) == IF n = 0 THEN 1 ELSE 2 * pow2(n - 1)
        RECURSIVE pow2_mod_1000(_)
        pow2_mod_1000(n) == IF n = 0 THEN 1 ELSE (2 * pow2_mod_1000(n - 1)) % 1000
        \* exact / 1000 >= 2^(e - 10): its significand has the unit 2^-(62 - e)
        coarse(e) == IF e >= 7 THEN exact >= 125 * pow2(e - 7)
                     ELSE exact * pow2(7 - e) >= 125
        rho(e) == ((exact % 1000) * pow2_mod_1000(62 - e)) % 1000
        truncated(e) == coarse(e) /\ 256 < rho(e) /\ rho(e) < 500
    IN  IF exact > 0 /\ truncated(bit_length(exact)) THEN exact - 1 ELSE exact

\* get_epoch_ms / _get_epoch_ms on f"{year} {month} {day} {time}", time being
\* HH:MM:SS.mmm: the exception strptime raises, or
\* int(dt.timestamp() * 1000.0) for the UTC date and time of day
get_epoch_ms(year, month, day, time) ==
    LET MonthNumber(name) ==
            IF \E k \in 1..12 : MONTHS[k] = name
            THEN CHOOSE k \in 1..12 : MONTHS[k] = name
            ELSE 0
        IsLeap(y) == (y % 4 = 0 /\ y % 100 # 0) \/ y % 400 = 0
        DaysInMonth(y, m) ==
            IF m = 2 THEN (IF IsLeap(y) THEN 29 ELSE 28)
            ELSE IF m \in {4, 6, 9, 11} THEN 30 ELSE 31
        RECURSIVE DaysBeforeYear(_)
        DaysBeforeYear(y) ==
            IF y <= 1970 THEN 0
            ELSE DaysBeforeYear(y - 1) + (IF IsLeap(y - 1) THEN 366 ELSE 365)
        RECURSIVE DaysBeforeMonth(_, _)
        DaysBeforeMonth(y, m) ==
            IF m <= 1 THEN 0 ELSE DaysBeforeMonth(y, m - 1) + DaysInMonth(y, m - 1)
        epoch_ms(y, mo, d, hh, mm, ss, ms) ==
            IF \/ y < 1 \/ mo = 0 \/ d < 1 \/ d > DaysInMonth(y, mo)
               \/ hh > 23 \/ mm > 59 \/ ss > 59
            THEN [exc |-> "ValueError", ms |-> 0]
            ELSE [exc |-> "",
                  ms |-> float_ms(((((DaysBeforeYear(y) + DaysBeforeMonth(y, mo) + (d - 1)) * 24 + hh)
                                     * 60 + mm) * 60 + ss) * 1000 + ms)]
    IN  epoch_ms(DecValue(year), MonthNumber(month), DecValue(day),
                 DecValue(SubSeq(time, 1, 2)), DecValue(SubSeq(time, 4, 5)),
                 DecValue(SubSeq(time, 7, 8)), DecValue(SubSeq(time, 10, 12)))

\* Position of the first occurrence of sep in s, 0 when there is none
FindSub(s, sep) ==
    IF StrContains(s, sep)
    THEN CHOOSE i \in 1..Len(s) :
            /\ SubSeq(s, i, i + Len(sep) - 1) = sep
            /\ \A j \in 1..(i - 1) : SubSeq(s, j, j + Len(sep) - 1) # sep
    ELSE 0

DASHES == <<" "," ","-","-"," "," ">>

\* rest.split("  --  ", 1), both parts stripped; without the separator the
\* stripped rest alone
split_rest(rest) ==
    LET cut(at) ==
            IF at = 0 THEN <<Strip(rest)>>
            ELSE <<Strip(SubSeq(rest, 1, at - 1)),
                   Strip(SubSeq(rest, at + Len(DASHES), Len(rest)))>>
    IN  cut(FindSub(rest, DASHES))

LOG_B0C0 == <<"0","x","B","0","C","0">>

LOG_B821 == <<"0","x","B","8","2","1">>

\* What parse_entry gives: the exception that left it, or None / Some(Entry)
ParsedEntry(exc, e) == [exc |-> exc, entry |-> e]

-----------------------------------------------------------------------------
(* asn1parse.py: parse_entry *)

asn1parse_Entry(g, ts_ms, names, data) ==
    [date |-> g[1] \o <<" ">> \o g[2] \o <<" ">> \o g[3], time |-> g[4], ts_ms |-> ts_ms,
     unknown |-> g[5], log_code |-> g[6], log_name |-> names[1],
     log_subname |-> IF Len(names) = 2 THEN PyStr(names[2]) ELSE PyNone,
     data |-> data]

\* asn1parse.parse_entry(text_lines)
asn1parse_parse_entry(text_lines) ==
    LET with_data(g, ts_ms, names, p) ==
            IF p.exc # "" THEN ParsedEntry(p.exc, None)
            ELSE ParsedEntry("", Some(asn1parse_Entry(g, ts_ms, names, p.result)))
        entry_at(g, ts) ==
            IF ts.exc # "" THEN ParsedEntry(ts.exc, None)
            ELSE IF Len(text_lines) > 1 /\ g[6] \in {LOG_B0C0, LOG_B821}
            THEN with_data(g, ts.ms, split_rest(g[7]), parse_asn1_packet(Tail(text_lines)))
            ELSE ParsedEntry("", Some(asn1parse_Entry(g, ts.ms, split_rest(g[7]), PyNone)))
        matched(m) ==
            IF ~m.ok THEN ParsedEntry("", None)
            ELSE entry_at(m.groups,
                    get_epoch_ms(m.groups[1], m.groups[2], m.groups[3], m.groups[4]))
    IN  matched(match_header(text_lines[1]))

-----------------------------------------------------------------------------
(* linkhelper.py: parse_packet and parse_entry *)

\* linkhelper.parse_packet(lines): the key = value parts of every line,
\* split at the commas outside parentheses; with an "Interpreted PDU:" line
\* it then calls asn1parse.parse_asn1, which asn1parse does not define
parse_packet(lines) ==
    LET \* paren_depth when the character at k of line is read
        paren_depth(line, k) ==
            Cardinality({j \in 1..(k - 1) : line[j] = "("})
                - Cardinality({j \in 1..(k - 1) : line[j] = ")"})
        \* the positions of the commas that end a part
        part_ends(line) ==
            {k \in 1..Len(line) : line[k] = "," /\ paren_depth(line, k) = 0}
        \* the n-th smallest of the positions
        NthOf(positions, n) ==
            CHOOSE k \in positions : Cardinality({j \in positions : j < k}) = n - 1
        \* current_part when position k is reached
        part_before(line, ends, k) ==
            SubSeq(line,
                   IF \E j \in ends : j < k
                   THEN (CHOOSE j \in ends : j < k /\ \A h \in ends : h < k => h <= j) + 1
                   ELSE 1,
                   k - 1)
        \* what follows the last comma is a part when it is not empty
        parts_at(line, ends, last) ==
            [n \in 1..Cardinality(ends) |-> Strip(part_before(line, ends, NthOf(ends, n)))]
                \o (IF last # <<>> THEN <<Strip(last)>> ELSE <<>>)
        comma_parts(line) ==
            parts_at(line, part_ends(line), part_before(line, part_ends(line), Len(line) + 1))
        \* for part in parts: if "=" in part: result[key] = value
        RECURSIVE set_parts(_, _)
        set_parts(parts, res) ==
            IF parts = <<>> THEN res
            ELSE set_parts(Tail(parts),
                    IF IndexOf(Head(parts), "=") = 0 THEN res
                    ELSE DictSet(res, Strip(SplitOnce(Head(parts), "=")[1]),
                                 PyStr(Strip(SplitOnce(Head(parts), "=")[2]))))
        \* for line in parse_lines
        RECURSIVE packet_pairs(_, _)
        packet_pairs(k, res) ==
            IF k > Len(lines) THEN res
            ELSE IF Strip(lines[k]) = <<>> THEN packet_pairs(k + 1, res)
            ELSE packet_pairs(k + 1, set_parts(comma_parts(Strip(lines[k])), res))
    IN  IF \E k \in 1..Len(lines) : Strip(lines[k]) = INTERPRETED_PDU_MARK
        THEN Packet("AttributeError", EMPTY_DICT)
        ELSE Packet("", packet_pairs(1, EMPTY_DICT))

linkhelper_Entry(g, ts_ms, names, data) ==
    [date |-> g[1] \o <<" ">> \o g[2] \o <<" ">> \o g[3], time |-> g[4], ts_ms |-> ts_ms,
     unknown |-> g[5], log_code |-> g[6],
     log_type |-> IF Len(names) = 2 THEN PyStr(names[1]) ELSE PyNone,
     log_name |-> names[Len(names)],
     data |-> data]

\* linkhelper.parse_entry(text_lines)
linkhelper_parse_entry(text_lines) ==
    LET with_data(g, ts_ms, names, p) ==
            IF p.exc # "" THEN ParsedEntry(p.exc, None)
            ELSE ParsedEntry("", Some(linkhelper_Entry(g, ts_ms, names, p.result)))
        entry_at(g, ts) ==
            IF ts.exc # "" THEN ParsedEntry(ts.exc, None)
            ELSE IF Len(text_lines) > 1 /\ g[6] = LOG_B0C0
            THEN with_data(g, ts.ms, split_rest(g[7]), parse_packet(Tail(text_lines)))
            ELSE ParsedEntry("", Some(linkhelper_Entry(g, ts.ms, split_rest(g[7]), PyNone)))
        matched(m) ==
            IF ~m.ok THEN ParsedEntry("", None)
            ELSE entry_at(m.groups,
                    get_epoch_ms(m.groups[1], m.groups[2], m.groups[3], m.groups[4]))
    IN  matched(match_header(text_lines[1]))

\* linkhelper.supported_logs[log_code]
linkhelper_supported_logs(log_code) ==
    IF log_code = LOG_B0C0 THEN {RECONF, RECONF_COMPLETE} ELSE {}

-----------------------------------------------------------------------------
(* The file drivers: asn1parse.process_file and linkhelper.process_logs,    *)
(* one action per pass of their loop over the line groups                   *)

HDR_RECONF == <<"1","9","7","0"," ","J","a","n"," ","0","2"," "," ","2","0",":","3","4",":","0","4",".","1","6","5"," "," ","[","0","0","]"," "," ","0","x","B","0","C","0"," "," ","L","T","E"," ","R","R","C"," ","O","T","A"," ","P","a","c","k","e","t"," "," ","-","-"," "," ","D","L","_","D","C","C","H"," ","/"," ","R","R","C","C","o","n","n","e","c","t","i","o","n","R","e","c","o","n","f","i","g","u","r","a","t","i","o","n">>

HDR_COMPLETE == <<"1","9","7","0"," ","J","a","n"," ","0","2"," "," ","2","0",":","3","4",":","0","4",".","1","8","5"," "," ","[","0","0","]"," "," ","0","x","B","0","C","0"," "," ","L","T","E"," ","R","R","C"," ","O","T","A"," ","P","a","c","k","e","t"," "," ","-","-"," "," ","U","L","_","D","C","C","H"," ","/"," ","R","R","C","C","o","n","n","e","c","t","i","o","n","R","e","c","o","n","f","i","g","u","r","a","t","i","o","n","C","o","m","p","l","e","t","e">>

HDR_OTHER == <<"1","9","7","0"," ","J","a","n"," ","0","2"," "," ","2","0",":","3","4",":","0","3",".","0","0","0"," "," ","[","E","C","]"," "," ","0","x","1","F","F","0"," "," ","D","i","a","g","n","o","s","t","i","c"," ","R","e","s","p","o","n","s","e"," ","S","t","a","t","u","s"," "," ","-","-"," "," ","L","o","g"," ","C","o","n","f","i","g">>

HDR_BAD_DATE == <<"1","9","7","0"," ","F","e","b"," ","3","0"," "," ","2","0",":","3","4",":","0","6",".","0","0","0"," "," ","[","0","0","]"," "," ","0","x","B","0","C","0"," "," ","L","T","E"," ","R","R","C"," ","O","T","A"," ","P","a","c","k","e","t"," "," ","-","-"," "," ","D","L","_","D","C","C","H"," ","/"," ","R","R","C","C","o","n","n","e","c","t","i","o","n","R","e","c","o","n","f","i","g","u","r","a","t","i","o","n">>

HDR_TRUNCATED == <<"1","9","7","0"," ","J","a","n"," ","0","2"," "," ","2","0",":","3","4",":","0","5",".","0","0","0"," "," ","0","x","B","0","C","0">>

LINE_TEXT == <<"L","o","g"," ","C","o","d","e","s"," ","E","n","a","b","l","e","d",":">>

LINE_VERSION == <<"P","k","t"," ","V","e","r","s","i","o","n"," ","="," ","2","6",","," ","R","R","C"," ","R","e","l","e","a","s","e"," ","N","u","m","b","e","r",".","M","a","j","o","r",".","m","i","n","o","r"," ","="," ","1","5",".","6",".","0">>

LINE_CMD == <<" "," "," "," ","C","M","D"," ","C","o","d","e"," "," ","="," ","1","1","5">>

Groups ==
    { <<HDR_RECONF>>,
      <<HDR_RECONF, LINE_VERSION>>,
      <<HDR_RECONF, LINE_VERSION, LINE_INTERPRETED, LINE_ROOT, LINE_FIELD>>,
      <<HDR_COMPLETE>>,
      <<HDR_OTHER, LINE_CMD>>,
      <<HDR_BAD_DATE>>,
      <<HDR_TRUNCATED, LINE_CMD>>,
      <<LINE_TEXT, LINE_CMD>> }

MaxGroups == 3

\* The groups get_entries and _split_entries yield: every group after the
\* first one starts at a timestamp line
Files ==
    {f \in UNION {[1..n -> Groups] : n \in 0..MaxGroups} :
        \A k \in 2..Len(f) : is_timestamp_line(f[k][1])}

DriverInit ==
    /\ TrackerInit
    /\ RouterIdle
    /\ SegmenterIdle
    /\ NestedIdle
    /\ raw_entries \in Files
    /\ driver \in {"process_file", "process_logs"}
    /\ group_index = 0
    /\ file_result = <<>>
    /\ driver_raised = ""
    /\ returned = FALSE

InLoop(d) == driver = d /\ driver_raised = "" /\ group_index < Len(raw_entries)

\* The exception exc leaves the driver
Abort(exc) ==
    /\ driver_raised' = exc
    /\ UNCHANGED <<raw_entries, driver, group_index, file_result, returned>>

\* The loop goes on to the next group
NextGroup ==
    /\ group_index' = group_index + 1
    /\ UNCHANGED <<raw_entries, driver, driver_raised, returned>>

\* process_file: entry = parse_entry(text_lines); if entry: result.append(entry)
ProcessFileGroup ==
    LET file_group(r) ==
            IF r.exc # "" THEN Abort(r.exc)
            ELSE /\ NextGroup
                 /\ file_result' = IF r.entry = None THEN file_result
                                   ELSE Append(file_result, r.entry[1])
    IN  /\ InLoop("process_file")
        /\ file_group(asn1parse_parse_entry(raw_entries[group_index + 1]))
        /\ UNCHANGED trackerVars
        /\ UNCHANGED routerVars
        /\ UNCHANGED segmenterVars
        /\ UNCHANGED nestedVars

\* process_logs: entry = parse_entry(text_lines), then entry.ts_ms is read
\* whatever parse_entry returned; a supported entry goes to uestat.add_rrc
ProcessLogsGroup ==
    LET logs_add_rrc(e, o) ==
            /\ pcell' = o.pcell
            /\ sCells' = o.sCells
            /\ ho_events' = o.ho_events
            /\ result' = o.result
            /\ printed' = o.printed
            /\ entry' = Some(e)
            /\ ncalls' = ncalls + 1
            /\ file_result' = file_result
            /\ IF o.result \in {"None", "-1"} THEN NextGroup ELSE Abort(o.result)
        logs_group(r) ==
            IF r.exc # "" THEN Abort(r.exc) /\ UNCHANGED trackerVars
            ELSE IF r.entry = None THEN Abort("AttributeError") /\ UNCHANGED trackerVars
            ELSE IF /\ 0 <= r.entry[1].ts_ms
                    /\ r.entry[1].log_name \in linkhelper_supported_logs(r.entry[1].log_code)
            THEN logs_add_rrc(r.entry[1],
                     add_rrc([pcell |-> pcell, sCells |-> sCells, ho_events |-> ho_events],
                             r.entry[1]))
            ELSE NextGroup /\ file_result' = file_result /\ UNCHANGED trackerVars
    IN  /\ InLoop("process_logs")
        /\ logs_group(linkhelper_parse_entry(raw_entries[group_index + 1]))
        /\ UNCHANGED routerVars
        /\ UNCHANGED segmenterVars
        /\ UNCHANGED nestedVars

AtEnd(d) ==
    driver = d /\ driver_raised = "" /\ group_index = Len(raw_entries) /\ ~returned

Returns ==
    /\ returned' = TRUE
    /\ UNCHANGED <<raw_entries, driver, group_index, file_result, driver_raised>>
    /\ UNCHANGED trackerVars
    /\ UNCHANGED routerVars
    /\ UNCHANGED segmenterVars
    /\ UNCHANGED nestedVars

\* process_file: return result
ProcessFileReturn == AtEnd("process_file") /\ Returns

\* process_logs: return uestat
ProcessLogsReturn == AtEnd("process_logs") /\ Returns

DriverNext ==
    \/ ProcessFileGroup
    \/ ProcessFileReturn
    \/ ProcessLogsGroup
    \/ ProcessLogsReturn

DriverSpec == DriverInit /\ [][DriverNext]_vars

-----------------------------------------------------------------------------
(* Properties of the file drivers *)

\* C9 (as claimed): for a group whose first line does not match the header
\* pattern, parse_entry returns None and the driver passes to the next
\* group without raising and without recording anything for the group.
C9_UnmatchedGroupIsSkipped ==
    [][ ( /\ driver_raised = ""
          /\ group_index < Len(raw_entries)
          /\ ~match_header(raw_entries[group_index + 1][1]).ok ) =>
            /\ asn1parse_parse_entry(raw_entries[group_index + 1]) = ParsedEntry("", None)
            /\ linkhelper_parse_entry(raw_entries[group_index + 1]) = ParsedEntry("", None)
            /\ driver_raised' = ""
            /\ group_index' = group_index + 1
            /\ file_result' = file_result
            /\ UNCHANGED trackerVars ]_vars

(***************************************************************************)
(* The entry segmenter: asn1parse._split_entries and linkhelper.get_entries *)
(* (the same code in both files).  It reads every line of the file, then   *)
(* walks them with a one-way cursor and a lookahead at blank lines.        *)
(***************************************************************************)

\* The lookahead of a blank line at 0-based index i: the first later line that
\* is neither blank nor a metadata line, or None
next_non_empty(lines, i) ==
    LET found == {j \in (i + 2)..Len(lines) :
                     Strip(lines[j]) # <<>> /\ ~StartsWith(lines[j], <<"%">>)}
    IN  IF found = {} THEN None
        ELSE Some(lines[CHOOSE j \in found : \A k \in found : j <= k])

\* Lines of a log file
SEG_TS1 == <<"1","9","7","0"," ","J","a","n"," ","0","2"," "," ","2","0",":","3","4",":","0","4",".","1","6","5"," "," ","[","0","0","]"," "," ","0","x","B","0","C","0"," "," ","A">>
SEG_TS2 == <<"1","9","7","0"," ","J","a","n"," ","3"," ","2","0",":","3","4",":","0","5">>
SEG_BODY == <<"b","o","d","y">>
SEG_BODY2 == <<"b","o","d","y","2">>
SEG_TAIL == <<"t","a","i","l">>
SEG_META == <<"%","m","e","t","a">>
SEG_BLANK == <<>>

FileLines == {SEG_TS1, SEG_TS2, SEG_BODY, SEG_BODY2, SEG_TAIL, SEG_META, SEG_BLANK}

MaxFileLines == 5

LogFiles == UNION {[1..n -> FileLines] : n \in 0..MaxFileLines}

SegmenterInit ==
    /\ TrackerInit
    /\ RouterIdle
    /\ DriverIdle
    /\ NestedIdle
    /\ log_lines \in LogFiles
    /\ line_index = 0
    /\ current_entry = <<>>
    /\ yielded = <<>>
    /\ split_done = FALSE

\* while i < len(lines), and the line under the cursor
AtLine == ~split_done /\ line_index < Len(log_lines)

\* An iteration of the loop that leaves the current group as group and yields
\* the groups in out
SegmentStep(group, out) ==
    /\ line_index' = line_index + 1
    /\ current_entry' = group
    /\ yielded' = yielded \o out
    /\ UNCHANGED <<log_lines, split_done>>
    /\ UNCHANGED trackerVars
    /\ UNCHANGED routerVars
    /\ UNCHANGED driverVars
    /\ UNCHANGED nestedVars

\* if line.startswith("%"): i += 1; continue
SkipMetadataLine ==
    /\ AtLine
    /\ StartsWith(log_lines[line_index + 1], <<"%">>)
    /\ SegmentStep(current_entry, <<>>)

\* if not line.strip(): the lookahead decides between ending the group
\* (yielded when it is not empty) and keeping the blank line in it
BlankLine ==
    /\ AtLine
    /\ ~StartsWith(log_lines[line_index + 1], <<"%">>)
    /\ Strip(log_lines[line_index + 1]) = <<>>
    /\ LET ahead == next_non_empty(log_lines, line_index)
       IN  IF ahead # None /\ ahead[1] # <<>> /\ is_timestamp_line(ahead[1])
           THEN SegmentStep(<<>>, IF current_entry # <<>> THEN <<current_entry>> ELSE <<>>)
           ELSE SegmentStep(Append(current_entry, log_lines[line_index + 1]), <<>>)

\* else: current_entry.append(line)
ContentLine ==
    /\ AtLine
    /\ ~StartsWith(log_lines[line_index + 1], <<"%">>)
    /\ Strip(log_lines[line_index + 1]) # <<>>
    /\ SegmentStep(Append(current_entry, log_lines[line_index + 1]), <<>>)

\* After the loop: if current_entry: yield current_entry
YieldLast ==
    /\ ~split_done
    /\ line_index = Len(log_lines)
    /\ split_done' = TRUE
    /\ yielded' = IF current_entry # <<>> THEN Append(yielded, current_entry) ELSE yielded
    /\ UNCHANGED <<log_lines, line_index, current_entry>>
    /\ UNCHANGED trackerVars
    /\ UNCHANGED routerVars
    /\ UNCHANGED driverVars
    /\ UNCHANGED nestedVars

SegmenterNext ==
    \/ SkipMetadataLine
    \/ BlankLine
    \/ ContentLine
    \/ YieldLast

SegmenterSpec == SegmenterInit /\ [][SegmenterNext]_vars

\* The next non-blank line after the line at 0-based index i, or None
NextNonBlank(lines, i) ==
    LET found == {j \in (i + 2)..Len(lines) : Strip(lines[j]) # <<>>}
    IN  IF found = {} THEN None
        ELSE Some(lines[CHOOSE j \in found : \A k \in found : j <= k])

\* C11: at a blank line the current group ends (it is yielded and a new one
\* starts) if and only if the next non-blank line is a timestamp header, and
\* otherwise the blank line is appended to the current group; so
\* [ts1, "body", "", ts2, "body2"] yields exactly [ts1, "body"] and
\* [ts2, "body2"], and in [ts1, "body", "", "tail", ts2] the blank line and
\* "tail" are in the first group
C11_BlankEndsGroupIffTimestampNext ==
    [][ /\ BlankLine =>
            LET ahead == NextNonBlank(log_lines, line_index)
            IN  IF ahead # None /\ is_timestamp_line(ahead[1])
                THEN /\ current_entry' = <<>>
                     /\ current_entry # <<>> => yielded' = Append(yielded, current_entry)
                ELSE /\ current_entry' = Append(current_entry, log_lines[line_index + 1])
                     /\ yielded' = yielded
        /\ (split_done' /\ log_lines = <<SEG_TS1, SEG_BODY, SEG_BLANK, SEG_TS2, SEG_BODY2>>)
              => yielded' = <<<<SEG_TS1, SEG_BODY>>, <<SEG_TS2, SEG_BODY2>>>>
        /\ (split_done' /\ log_lines = <<SEG_TS1, SEG_BODY, SEG_BLANK, SEG_TAIL, SEG_TS2>>)
              => yielded' = <<<<SEG_TS1, SEG_BODY, SEG_BLANK, SEG_TAIL, SEG_TS2>>>>
      ]_vars

(***************************************************************************)
(* parse_nested_pdu run on its own, one loop pass at a time, followed by   *)
(* further passes of _cleanup_empty_dict over the value it stored.         *)
(***************************************************************************)

\* _cleanup_empty_dict applied to any Python value: the exception it raises
\* (d.items() exists on mappings only) or the value it returns
RECURSIVE cleanup_pass(_)
cleanup_pass(d) ==
    IF d.t # "dict" THEN [exc |-> "AttributeError", v |-> d]
    ELSE LET inner == [k \in 1..Len(d.v) |->
                          IF Len(d.v[k][2].v) = 0 THEN [exc |-> "", v |-> d.v[k][2]]
                          ELSE cleanup_pass(d.v[k][2])]
             is_value_list ==
                 \E k \in 1..Len(d.v) : d.v[k][2].t = "dict" /\ Len(d.v[k][2].v) = 0
             as_list == [k \in 1..Len(d.v) |->
                            IF Len(d.v[k][2].v) = 0 THEN PyStr(d.v[k][1])
                            ELSE PyDict(<< <<d.v[k][1], inner[k].v>> >>)]
         IN  IF is_value_list
             THEN IF \E k \in 1..Len(d.v) : inner[k].exc # ""
                  THEN [exc |-> "AttributeError", v |-> d]
                  ELSE [exc |-> "", v |-> IF Len(as_list) = 1 THEN as_list[1] ELSE PyList(as_list)]
             ELSE IF \E k \in 1..Len(d.v) : cleanup_pass(d.v[k][2]).exc # ""
                  THEN [exc |-> "AttributeError", v |-> d]
                  ELSE [exc |-> "", v |-> PyDict([k \in 1..Len(d.v) |->
                                          <<d.v[k][1], cleanup_pass(d.v[k][2]).v>>])]

\* Two spaces per level of indentation
RECURSIVE Indent(_)
Indent(level) == IF level = 0 THEN <<>> ELSE <<" ", " ">> \o Indent(level - 1)

\* The body lines of a block: "key scalar" for a string, "key {" ... "}" for a
\* mapping, a comma after every field but the last
RECURSIVE FormatFields(_, _)
FormatFields(fields, level) ==
    IF fields = <<>> THEN <<>>
    ELSE LET key == Head(fields)[1]
             val == Head(fields)[2]
             comma == IF Len(fields) > 1 THEN <<",">> ELSE <<>>
         IN  (IF val.t = "str"
              THEN <<Indent(level) \o key \o <<" ">> \o val.v \o comma>>
              ELSE <<Indent(level) \o key \o <<" ", "{">>>>
                   \o FormatFields(val.v, level + 1)
                   \o <<Indent(level) \o <<"}">> \o comma>>)
             \o FormatFields(Tail(fields), level)

\* value X ::= { fields } in indentation format
Snippet(tree) == <<LINE_ROOT, <<"{">>>> \o FormatFields(tree.v, 1) \o <<<<"}">>>>

MaxDepth == 2

FieldKeys == {<<"a">>, <<"b">>}

\* The mappings of distinct keys to the values in vals, one or two fields
Blocks(vals) ==
    {<<<<k, v>>>> : k \in FieldKeys, v \in vals}
    \cup {<<<<ks[1], v1>>, <<ks[2], v2>>>> :
            ks \in {p \in FieldKeys \X FieldKeys : p[1] # p[2]}, v1 \in vals, v2 \in vals}

\* The trees of at most depth levels of nesting; a nested block may be empty
RECURSIVE TreesOf(_)
TreesOf(depth) ==
    IF depth = 1 THEN {PyDict(b) : b \in Blocks({PyStr(<<"1">>)})}
    ELSE {PyDict(b) : b \in Blocks({PyStr(<<"1">>), EMPTY_DICT} \cup TreesOf(depth - 1))}

\* value X ::= { a 1, b { c 2 } }
EXAMPLE_TREE ==
    PyDict(<< <<<<"a">>, PyStr(<<"1">>)>>,
              <<<<"b">>, PyDict(<< <<<<"c">>, PyStr(<<"2">>)>> >>)>> >>)

\* value X ::= { a 1:2 }
COLON_TREE == PyDict(<< <<<<"a">>, PyStr(<<"1", ":", "2">>)>> >>)

Trees == TreesOf(MaxDepth) \cup {EXAMPLE_TREE, COLON_TREE}

MaxElems == 3

\* A block p of n anonymous elements holding the scalars 1..n, an element
\* either on one line, { 1 }, or with its braces and its scalar on lines of
\* their own
ListSnippet(n, one_line) ==
    LET RECURSIVE Elements(_)
        Elements(k) ==
            IF k > n THEN <<>>
            ELSE LET comma == IF k < n THEN <<",">> ELSE <<>>
                 IN  (IF one_line
                      THEN <<Indent(2) \o <<"{", " ">> \o enumerate_key(k) \o <<" ", "}">> \o comma>>
                      ELSE <<Indent(2) \o <<"{">>,
                             Indent(3) \o enumerate_key(k),
                             Indent(2) \o <<"}">> \o comma>>)
                     \o Elements(k + 1)
    IN  <<LINE_ROOT, <<"{">>, Indent(1) \o <<"p", " ", "{">>>>
        \o Elements(1) \o <<Indent(1) \o <<"}">>, <<"}">>>>

ListSnippets == {ListSnippet(n, one_line) : n \in 2..MaxElems, one_line \in BOOLEAN}

\* A line of braces only: no token
LINE_BRACE == <<"{">>

\* A tagged-union line: three tokens
LINE_UNION == <<"c","1"," ",":"," ","a"," ","1">>

\* A field two levels deeper than LINE_FIELD
LINE_DEEP == <<" "," "," "," "," "," ","c"," ","2">>

MaxLoose == 3

\* Short runs of lines, with and without a root line
LooseLines ==
    UNION {[1..n -> {LINE_BLANK, LINE_ROOT, LINE_FIELD, LINE_OTHER, LINE_BRACE, LINE_UNION,
                     LINE_DEEP}] : n \in 0..MaxLoose}

Pdus == {Snippet(t) : t \in Trees} \cup ListSnippets \cup LooseLines

NestedInit ==
    /\ TrackerInit
    /\ RouterIdle
    /\ DriverIdle
    /\ SegmenterIdle
    /\ pdu_lines \in Pdus
    /\ assembly = Assembly(0, <<>>, EMPTY_DICT, FALSE)
    /\ nested_step = "header"
    /\ nested_out = Parsed("", 0, EMPTY_DICT)
    /\ passes = <<>>

\* The first loop of parse_nested_pdu and the test of the root line
NestedHeader ==
    /\ nested_step = "header"
    /\ LET h == nested_header(pdu_lines, 0)
       IN  IF Len(h.values) = 2
           THEN /\ assembly' = Assembly(h.i, <<StackEntry(get_indentation_level(h.line), <<>>)>>,
                                        EMPTY_DICT, FALSE)
                /\ nested_step' = "loop"
                /\ nested_out' = nested_out
           ELSE /\ nested_out' = IF Len(pdu_lines) = 0
                                 THEN Parsed("UnboundLocalError", 0, EMPTY_DICT)
                                 ELSE Parsed("", h.i - 1, EMPTY_DICT)
                /\ nested_step' = "returned"
                /\ assembly' = assembly
    /\ UNCHANGED <<pdu_lines, passes>>
    /\ UNCHANGED trackerVars
    /\ UNCHANGED routerVars
    /\ UNCHANGED driverVars
    /\ UNCHANGED segmenterVars

\* One pass of the second loop
NestedLine ==
    /\ nested_step = "loop"
    /\ assembly.i < Len(pdu_lines)
    /\ ~assembly.stop
    /\ assembly' = nested_line(pdu_lines[assembly.i + 1], assembly)
    /\ UNCHANGED <<pdu_lines, nested_step, nested_out, passes>>
    /\ UNCHANGED trackerVars
    /\ UNCHANGED routerVars
    /\ UNCHANGED driverVars
    /\ UNCHANGED segmenterVars

\* After the loop: body = _cleanup_empty_dict(body); root[root_key] = body;
\* return i - begin
NestedReturn ==
    /\ nested_step = "loop"
    /\ assembly.i >= Len(pdu_lines) \/ assembly.stop
    /\ nested_step' = "returned"
    /\ passes' = <<cleanup_pass(assembly.body)>>
    /\ nested_out' = Parsed("", assembly.i,
                            DictSet(EMPTY_DICT, nested_header(pdu_lines, 0).values[2],
                                    cleanup_empty_dict(assembly.body)))
    /\ UNCHANGED <<pdu_lines, assembly>>
    /\ UNCHANGED trackerVars
    /\ UNCHANGED routerVars
    /\ UNCHANGED driverVars
    /\ UNCHANGED segmenterVars

\* _cleanup_empty_dict applied to the value the previous pass returned
CleanupAgain ==
    /\ nested_step = "returned"
    /\ Len(passes) = 1
    /\ passes[1].exc = ""
    /\ passes' = Append(passes, cleanup_pass(passes[1].v))
    /\ UNCHANGED <<pdu_lines, assembly, nested_step, nested_out>>
    /\ UNCHANGED trackerVars
    /\ UNCHANGED routerVars
    /\ UNCHANGED driverVars
    /\ UNCHANGED segmenterVars

NestedNext ==
    \/ NestedHeader
    \/ NestedLine
    \/ NestedReturn
    \/ CleanupAgain

NestedSpec == NestedInit /\ [][NestedNext]_vars

\* The loop passes compute what parse_nested_pdu computes, and the first
\* cleanup pass what _cleanup_empty_dict computes
NestedStepsAgree ==
    nested_step = "returned" =>
        /\ nested_out = parse_nested_pdu(pdu_lines, 0, EMPTY_DICT)
        /\ passes # <<>> =>
              /\ passes[1].exc = ""
              /\ nested_out.root = PyDict(<< <<nested_header(pdu_lines, 0).values[2], passes[1].v>> >>)

\* C12: a second pass of _cleanup_empty_dict over the result of the first is
\* defined and returns the same value
C12_CleanupIsIdempotent ==
    Len(passes) = 2 => passes[2].exc = "" /\ passes[2].v = passes[1].v

\* The value stored in mapping d under key, or None
ValueAt(d, key) ==
    IF d.t = "dict" /\ \E k \in 1..Len(d.v) : d.v[k][1] = key
    THEN Some(d.v[CHOOSE k \in 1..Len(d.v) : d.v[k][1] = key][2])
    ELSE None

\* What parse_nested_pdu stored under the parent key p of the root X
StoredUnderParent ==
    LET root_value == ValueAt(nested_out.root, <<"X">>)
    IN  IF root_value = None THEN None ELSE ValueAt(root_value[1], <<"p">>)

\* C13: a parent block of N >= 2 anonymous one-scalar elements is stored under
\* its key as the list of the N scalar strings in input order
C13_AnonymousScalarsBecomeList ==
    \A n \in 2..MaxElems, one_line \in BOOLEAN :
        (nested_step = "returned" /\ pdu_lines = ListSnippet(n, one_line))
            => StoredUnderParent = Some(PyList([k \in 1..n |-> PyStr(enumerate_key(k))]))

\* The same for elements written on one line each, { 1 },
OneLineElementsBecomeList ==
    \A n \in 2..MaxElems :
        (nested_step = "returned" /\ pdu_lines = ListSnippet(n, TRUE))
            => StoredUnderParent = Some(PyList([k \in 1..n |-> PyStr(enumerate_key(k))]))

\* A nested mapping whose leaves are strings; with plain, every nested block
\* holds a field and no string holds a colon
RECURSIVE IsTree(_, _)
IsTree(value, plain) ==
    IF value.t = "str" THEN ~plain \/ \A k \in 1..Len(value.v) : value.v[k] # ":"
    ELSE IF value.t = "dict"
    THEN /\ plain => value.v # <<>>
         /\ \A k \in 1..Len(value.v) : IsTree(value.v[k][2], plain)
    ELSE FALSE

TreeSnippets == {Snippet(tree) : tree \in Trees}

PlainSnippets == {Snippet(tree) : tree \in {t \in Trees : IsTree(t, TRUE)}}

\* parse_nested_pdu consumed every line and stored under X, and nowhere else,
\* a nested mapping whose indentation format is the lines it was given
StoredSourceTree(plain) ==
    LET stored == ValueAt(nested_out.root, <<"X">>)
    IN  /\ stored # None
        /\ IsTree(stored[1], plain)
        /\ stored[1].t = "dict"
        /\ Snippet(stored[1]) = pdu_lines
        /\ nested_out = Parsed("", Len(pdu_lines), PyDict(<< <<<<"X">>, stored[1]>> >>))

\* C14 as stated: from the indentation-formatted snippet of a tree with
\* distinct sibling keys, whose body lines are "key scalar" or a key opening a
\* nested block, parse_nested_pdu stores under X that nested mapping, scalars
\* as string leaves and blocks as mappings
C14_SnippetGivesNestedMapping ==
    (nested_step = "returned" /\ pdu_lines \in TreeSnippets) => StoredSourceTree(FALSE)

\* C14 amended: the same when every nested block holds at least one field and
\* no scalar holds a colon; value X ::= { a 1, b { c 2 } } gives
\* X -> {a: "1", b: {c: "2"}}
C14_PlainSnippetGivesNestedMapping ==
    /\ (nested_step = "returned" /\ pdu_lines \in PlainSnippets) => StoredSourceTree(TRUE)
    /\ (nested_step = "returned" /\ pdu_lines = Snippet(EXAMPLE_TREE))
          => nested_out.root = PyDict(<< <<<<"X">>, EXAMPLE_TREE>> >>)

C14_Witness ==
    /\ nested_step = "returned"
    /\ pdu_lines = Snippet(EXAMPLE_TREE)
    /\ nested_out = Parsed("", 7, PyDict(<< <<<<"X">>, EXAMPLE_TREE>> >>))

-----------------------------------------------------------------------------
(* The unparsed tail of the block router *)

-----------------------------------------------------------------------------
(* Further properties of the tracker *)

\* C16: add_rrc returns without raising for every entry of a supported kind,
\* whatever its body holds: every call ends by returning None or -1
C16_AddRrcNeverRaises == entry # None => result \in {"None", "-1"}

-----------------------------------------------------------------------------
(* The timestamps of a file: process_file and process_logs on files of     *)
(* one-line groups whose headers differ in date and time only.  The dates  *)
(* are of January 1970, where milliseconds fit 32-bit integers.            *)

TwoDigits(n) == <<Digits[(n \div 10) + 1], Digits[(n % 10) + 1]>>

\* A header line of the unsupported kind 0x1FF0 for day, hh:mm:ss.mmm
StampHeader(day, hh, mm, ss, mmm) ==
    <<"1", "9", "7", "0", " ", "J", "a", "n", " ">> \o TwoDigits(day) \o <<" ", " ">>
    \o TwoDigits(hh) \o <<":">> \o TwoDigits(mm) \o <<":">> \o TwoDigits(ss)
    \o <<".", Digits[(mmm \div 100) + 1]>> \o TwoDigits(mmm % 100)
    \o <<" ", " ", "[", "E", "C", "]", " ", " ", "0", "x", "1", "F", "F", "0", " ", " ",
         "D", "i", "a", "g", " ", " ", "-", "-", " ", " ", "C", "f", "g">>

\* Days, hours, minutes, seconds and milliseconds around values whose
\* binary64 product falls below the exact millisecond count
StampHeaders ==
    {StampHeader(day, hh, ms[1], ms[2], mmm) :
        day \in {1, 13}, hh \in {0, 6}, ms \in {<<0, 0>>, <<0, 1>>, <<45, 1>>},
        mmm \in {0, 1, 2}}

MaxStamps == 2

StampFiles == UNION {[1..n -> {<<h>> : h \in StampHeaders}] : n \in 1..MaxStamps}

StampInit ==
    /\ TrackerInit
    /\ RouterIdle
    /\ SegmenterIdle
    /\ NestedIdle
    /\ raw_entries \in StampFiles
    /\ driver \in {"process_file", "process_logs"}
    /\ group_index = 0
    /\ file_result = <<>>
    /\ driver_raised = ""
    /\ returned = FALSE

StampSpec == StampInit /\ [][DriverNext]_vars

\* Year, month, day, hour, minute, second and millisecond of an entry's
\* header, as numbers
StampOf(e) ==
    <<DecValue(SubSeq(e.date, 1, 4)),
      CHOOSE k \in 1..12 : MONTHS[k] = SubSeq(e.date, 6, 8),
      DecValue(SubSeq(e.date, 10, Len(e.date))),
      DecValue(SubSeq(e.time, 1, 2)), DecValue(SubSeq(e.time, 4, 5)),
      DecValue(SubSeq(e.time, 7, 8)), DecValue(SubSeq(e.time, 10, 12))>>

\* The date and time a are not later than the date and time b
RECURSIVE NotLater(_, _)
NotLater(a, b) ==
    \/ a = <<>>
    \/ Head(a) < Head(b)
    \/ Head(a) = Head(b) /\ NotLater(Tail(a), Tail(b))

\* C17: of two entries parsed from well-formed headers, the one whose date and
\* time are not later has a ts_ms that is not greater; so the ts_ms of a
\* time-ordered file do not decrease
C17_TimestampsAreMonotonic ==
    \A i \in 1..Len(file_result), j \in 1..Len(file_result) :
        NotLater(StampOf(file_result[i]), StampOf(file_result[j]))
            => file_result[i].ts_ms <= file_result[j].ts_ms

\* process_file returned two entries in time order, the first one a
\* millisecond earlier than the second, whose product was truncated: both
\* have the same ts_ms
C17_Witness ==
    /\ returned
    /\ Len(file_result) = 2
    /\ file_result[1].date = file_result[2].date
    /\ SubSeq(file_result[1].time, 1, 8) = SubSeq(file_result[2].time, 1, 8)
    /\ DecValue(SubSeq(file_result[1].time, 10, 12)) + 1
          = DecValue(SubSeq(file_result[2].time, 10, 12))
    /\ file_result[1].ts_ms = file_result[2].ts_ms

\* The entry carries the ids of a handover: a mobility-control-info with its
\* handover type, a release list naming an index, or an add/modify-list
\* element with a cell identification block
ProducesCellIds(e) ==
    \/ Found(e, MCG_HO_KEY) # <<>> /\ Found(e, HO_TYPE_KEY) # <<>>
    \/ ReleaseIndices(e) # {}
    \/ CellMods(e) # {}

\* The call appended an event
Appended == Len(ho_events') = Len(ho_events) + 1

\* The hoType add_rrc is to give the event of entry e
ExpectedType(e) ==
    IF Found(e, MCG_HO_KEY) # <<>>
    THEN first_key(Found(e, HO_TYPE_KEY)[1]).val
    ELSE INTRA_SCG

\* C18: a call of add_rrc for a Reconfiguration entry that returns appends an
\* event if and only if the entry produced an added or a removed cell id, and
\* the event's hoType is the handover-type tag of the entry when it carries a
\* primary-cell reassignment and "intraSCG" otherwise
C18_EventIffCellIds ==
    [][ (IsCall /\ entry'[1].log_name = RECONF /\ result' \in {"None", "-1"}) =>
            /\ Appended <=> ProducesCellIds(entry'[1])
            /\ Appended => ho_events'[Len(ho_events')].hoType = ExpectedType(entry'[1])
            /\ ~Appended => Len(ho_events') = Len(ho_events) ]_vars

\* The same for the calls that return None
EventIffCellIdsOnNone ==
    [][ (IsCall /\ entry'[1].log_name = RECONF /\ result' = "None") =>
            /\ Appended <=> ProducesCellIds(entry'[1])
            /\ Appended => ho_events'[Len(ho_events')].hoType = ExpectedType(entry'[1])
            /\ ~Appended => Len(ho_events') = Len(ho_events) ]_vars

\* The mobility-control-info of e, with its target cell id and frequency
TargetOf(e) ==
    LET mci == Found(e, MCG_HO_KEY)[1]
    IN  [pci |-> IntAt(mci, TARGET_PCI_KEY),
         freq |-> IF mci.t = "dict" /\ DictHas(mci, CARRIER_FREQ_KEY)
                  THEN IntAt(DictGet(mci, CARRIER_FREQ_KEY), DL_CARRIER_FREQ_KEY)
                  ELSE [exc |-> "KeyError", val |-> 0]]

\* e carries a mobility-control-info with a target cell id and a carrier
\* frequency, and a handover type
IsHandover(e) ==
    /\ e.log_name = RECONF
    /\ Found(e, MCG_HO_KEY) # <<>>
    /\ Found(e, HO_TYPE_KEY) # <<>>
    /\ TargetOf(e).pci.exc = ""
    /\ TargetOf(e).freq.exc = ""

\* C19: a call that returns for a Reconfiguration entry with
\* mobility-control-info (target cell id p, carrier frequency f) and a
\* handover type, made when the primary cell has the cell id q, opens an event
\* whose removed_cells holds q and whose added_cells holds p, and leaves
\* pcell = Cell(mcg, p, f)
C19_HandoverSwapsPrimaryCell ==
    [][ (IsCall /\ IsHandover(entry'[1]) /\ result' = "None") =>
            /\ Appended
            /\ pcell.physCellId \in Range(ho_events'[Len(ho_events')].removed_cells)
            /\ Some(TargetOf(entry'[1]).pci.val)
                  \in Range(ho_events'[Len(ho_events')].added_cells)
            /\ pcell' = Cell(None, "mcg", Some(TargetOf(entry'[1]).pci.val),
                             Some(TargetOf(entry'[1]).freq.val)) ]_vars

\* A second handover: the primary cell 171 was replaced by 30
C19_Witness ==
    /\ entry # None
    /\ IsHandover(entry[1])
    /\ result = "None"
    /\ ho_events # <<>>
    /\ Some(171) \in Range(LastEvent.removed_cells)
    /\ Some(30) \in Range(LastEvent.added_cells)
    /\ pcell = Cell(None, "mcg", Some(30), Some(66))

\* The physical-cell-ids of the cells tracked in the state with primary cell
\* pc and secondary cells sc
TrackedIds(pc, sc) == {pc.physCellId} \cup {sc[i].physCellId : i \in DOMAIN sc}

\* C20: every element of the added_cells and removed_cells of an event is an
\* integer, never a null value, and is the physical-cell-id of a cell that is
\* tracked after the call that opened the event (added) or was tracked before
\* it (removed)
C20_EventCellsArePhysCellIds ==
    [][ (IsCall /\ Appended) =>
            /\ \A x \in Range(ho_events'[Len(ho_events')].added_cells) :
                  x # None /\ x \in TrackedIds(pcell', sCells')
            /\ \A x \in Range(ho_events'[Len(ho_events')].removed_cells) :
                  x # None /\ x \in TrackedIds(pcell, sCells) ]_vars

\* The part of C20 about null values alone
NoNullCellId ==
    \A k \in 1..Len(ho_events) :
        /\ None \notin Range(ho_events[k].added_cells)
        /\ None \notin Range(ho_events[k].removed_cells)

-----------------------------------------------------------------------------
(* C21: a Reconfiguration-Complete entry *)

IsComplete(e) == e.log_name = RECONF_COMPLETE

\* C21: processing a Reconfiguration-Complete entry appends no HandoverEvent
\* and changes neither pcell nor sCells, whatever its body contains; at most
\* the end of the last open event is set.
C21_CompleteOnlyClosesLastEvent ==
    [][ (IsCall /\ IsComplete(entry'[1]))
        => /\ Len(ho_events') = Len(ho_events)
           /\ pcell' = pcell
           /\ sCells' = sCells
           /\ \A k \in 1..Len(ho_events) :
                \/ ho_events'[k] = ho_events[k]
                \/ /\ k = Len(ho_events)
                   /\ ho_events[k].end = None
                   /\ ho_events'[k] = [ho_events[k] EXCEPT !.end = Some(entry'[1].ts_ms)]
      ]_vars

-----------------------------------------------------------------------------
(* C22: the release of a single index *)

\* The release blocks of e that the parser collapsed to one scalar
SingleReleases(e) == {v \in Range(Found(e, SCG_REL_KEY)) : v.t = "str"}

AddedIndices(e) == {ModIdx(m) : m \in CellMods(e)}

\* C22: a call for a Reconfiguration entry whose release list holds the one
\* index i removes sCells[i] and no entry with another index, however many
\* digits i is written with.
C22_SingleReleaseRemovesThatIndex ==
    [][ (IsCall /\ entry'[1].log_name = RECONF) =>
            \A v \in SingleReleases(entry'[1]) :
                /\ \A j \in DOMAIN sCells : j # PyInt(v).val => j \in DOMAIN sCells'
                /\ PyInt(v).val \in DOMAIN sCells' => PyInt(v).val \in AddedIndices(entry'[1])
      ]_vars

-----------------------------------------------------------------------------
(* C23: termination of parse_asn1_packet *)

\* The statements still to run in the current pass of the router loop
StepsLeft(s) ==
    CASE s = "loop" -> 6
      [] s = "value_pair" -> 5
      [] s = "interpreted" -> 4
      [] s = "further" -> 3
      [] s = "advance" -> 2
      [] s = "tail" -> 1
      [] OTHER -> 0

\* Decreases with every statement: the lines still to parse, then the
\* statements left in the pass
Variant == (Len(packet) - lines_parsed) * 7 + StepsLeft(step)

SubParsers(lines, begin) ==
    { parse_value_pair_lines(lines, begin, EMPTY_DICT),
      parse_interpreted_pdu(lines, begin, EMPTY_DICT),
      parse_further_decoding_pdu(lines, begin, EMPTY_DICT),
      parse_nested_pdu(lines, begin, EMPTY_DICT) }

\* C23: parse_asn1_packet terminates on every finite body: a sub-parser that
\* returns gives a count >= 0 that stays within the lines, each pass of the
\* loop either strictly increases the cursor or ends the loop, and
\* 0 <= lines_parsed <= len(lines) throughout.
C23_RouterTerminates ==
    /\ [](/\ 0 <= lines_parsed
          /\ lines_parsed <= Len(packet)
          /\ step \in {"value_pair", "interpreted", "further", "advance"} =>
                lines_parsed + parsed <= Len(packet)
          /\ 0 <= parsed
          /\ (sub.fn # "" /\ raised = "") => 0 <= sub.n
          /\ (step = "loop" /\ lines_parsed = 0) =>
                \A begin \in 0..(Len(packet) - 1) :
                    \A r \in SubParsers(packet, begin) :
                        r.exc = "" => (0 <= r.n /\ begin + r.n <= Len(packet)))
    /\ [][ /\ Variant' < Variant
           /\ 0 <= Variant'
           /\ step = "advance" => (lines_parsed' > lines_parsed \/ step' = "tail")
           /\ step' = "loop" => (step = "advance" /\ lines_parsed' > lines_parsed)
         ]_vars

\* The loop is back at its test with the cursor advanced and lines left
C23_Witness ==
    /\ step = "loop"
    /\ 0 < lines_parsed
    /\ lines_parsed < Len(packet)

-----------------------------------------------------------------------------
(* C24: the root line of parse_nested_pdu *)

\* The tokens of a line read as a root line
RootTokens(line) == parse_pdu_line(Replace(line, ASSIGN_MARK, ONE_SPACE))

\* The indices (from 0) of the lines from begin on that hold a token
TokenLines(lines, begin) == {k \in begin..(Len(lines) - 1) : RootTokens(lines[k + 1]) # <<>>}

Least(set) == CHOOSE k \in set : \A other \in set : k <= other

KeysOf(d) == {d.v[k][1] : k \in 1..Len(d.v)}

\* Root mappings a caller may hand in: empty, holding the root key already,
\* holding another key
CallerRoots ==
    { EMPTY_DICT,
      PyDict(<< <<(<<"X">>), PyStr(<<"o","l","d">>)>> >>),
      PyDict(<< <<(<<"k">>), PyStr(<<"v">>)>> >>) }

\* What C24 says of the call parse_nested_pdu(lines, begin, root) that
\* returned r, when line k is the first from begin on with a token
RootLineRule(lines, begin, root, r, k) ==
    /\ r.exc = ""
    /\ IF Len(RootTokens(lines[k + 1])) = 2
       THEN /\ KeysOf(r.root) = KeysOf(root) \cup {RootTokens(lines[k + 1])[2]}
            /\ \A key \in KeysOf(root) \ {RootTokens(lines[k + 1])[2]} :
                  DictGet(r.root, key) = DictGet(root, key)
            /\ r.n > k - begin
       ELSE /\ r.root = root
            /\ r.n = k - begin

\* C24: parse_nested_pdu takes the first line with a token as root line iff
\* it has exactly two tokens once "::=" is replaced by a space, and then
\* adds its second token as the only new key of the caller's root mapping;
\* with any other token count it leaves the root mapping as it was and
\* returns the number of token-less lines skipped before that line.
C24_RootLineNeedsTwoTokens ==
    nested_step = "returned" =>
        /\ TokenLines(pdu_lines, 0) # {} =>
              RootLineRule(pdu_lines, 0, EMPTY_DICT, nested_out, Least(TokenLines(pdu_lines, 0)))
        /\ Len(pdu_lines) <= MaxLoose =>
            \A begin \in 0..Len(pdu_lines), root \in CallerRoots :
              TokenLines(pdu_lines, begin) # {} =>
                  RootLineRule(pdu_lines, begin, root, parse_nested_pdu(pdu_lines, begin, root),
                               Least(TokenLines(pdu_lines, begin)))

\* A root line with three tokens was refused after one skipped line
C24_Witness ==
    /\ nested_step = "returned"
    /\ Len(pdu_lines) >= 2
    /\ TokenLines(pdu_lines, 0) # {}
    /\ Least(TokenLines(pdu_lines, 0)) = 1
    /\ Len(RootTokens(pdu_lines[2])) = 3
    /\ nested_out = Parsed("", 1, EMPTY_DICT)

-----------------------------------------------------------------------------
(* C25: where parse_nested_pdu stops *)

\* The root line was accepted: the first line from begin on with a token
\* has two
ValidRoot(lines, begin) ==
    /\ TokenLines(lines, begin) # {}
    /\ Len(RootTokens(lines[Least(TokenLines(lines, begin)) + 1])) = 2

\* The indices (from 0) of the lines after the root line at index first
\* that hold a token and are indented no deeper than level
StopLines(lines, first, level) ==
    {k \in (first + 1)..(Len(lines) - 1) :
        /\ get_indentation_level(lines[k + 1]) <= level
        /\ parse_pdu_line(lines[k + 1]) # <<>>}

\* The lines that stop parse_nested_pdu(lines, begin, root), given that its
\* root line is valid
StopLinesFrom(lines, begin) ==
    LET first == Least(TokenLines(lines, begin))
        level == get_indentation_level(Replace(lines[first + 1], ASSIGN_MARK, ONE_SPACE))
    IN  StopLines(lines, first, level)

\* The count C25 gives for parse_nested_pdu(lines, begin, root)
ResumeCount(lines, begin) ==
    LET stops == StopLinesFrom(lines, begin)
    IN  IF stops # {} THEN Least(stops) - begin ELSE Len(lines) - begin

\* C25: after a valid root line parse_nested_pdu stops at the first line
\* with a token whose level is <= the root line's level, does not consume
\* it and returns (index of that line - begin); without such a line it
\* consumes all remaining lines and returns len(lines) - begin.
C25_StopsAtLineOfEnclosingScope ==
    nested_step = "returned" =>
        /\ ValidRoot(pdu_lines, 0) =>
              /\ nested_out.exc = ""
              /\ nested_out.n = ResumeCount(pdu_lines, 0)
              /\ assembly.i = nested_out.n
              /\ assembly.stop <=> StopLinesFrom(pdu_lines, 0) # {}
        /\ Len(pdu_lines) <= MaxLoose =>
            \A begin \in 0..Len(pdu_lines), root \in CallerRoots :
              ValidRoot(pdu_lines, begin) =>
                  /\ parse_nested_pdu(pdu_lines, begin, root).exc = ""
                  /\ parse_nested_pdu(pdu_lines, begin, root).n = ResumeCount(pdu_lines, begin)

\* The parser returned before the end of the lines, at a line of the
\* enclosing scope, after consuming a line below the root line
C25_Witness ==
    /\ nested_step = "returned"
    /\ ValidRoot(pdu_lines, 0)
    /\ StopLinesFrom(pdu_lines, 0) # {}
    /\ nested_out.n = 2
    /\ nested_out.n < Len(pdu_lines)

-----------------------------------------------------------------------------
(* C26: the stack of parse_nested_pdu *)

HasPath(body, path) ==
    \A k \in 1..Len(path) :
        /\ NodeAt(body, SubSeq(path, 1, k - 1)).t = "dict"
        /\ DictHas(NodeAt(body, SubSeq(path, 1, k - 1)), path[k])

\* The levels of the stack grow by one from entry to entry, and the node of
\* each entry is a child of the node of the entry below it
IsChain(stack, body) ==
    /\ stack # <<>> => stack[1].path = <<>>
    /\ \A k \in 1..Len(stack) : HasPath(body, stack[k].path)
    /\ \A k \in 1..(Len(stack) - 1) :
          /\ stack[k + 1].level = stack[k].level + 1
          /\ Len(stack[k + 1].path) = Len(stack[k].path) + 1
          /\ SubSeq(stack[k + 1].path, 1, Len(stack[k].path)) = stack[k].path

\* The number of entries a line of the given level leaves on the stack
KeptBy(stack, level) == Cardinality({k \in 1..Len(stack) : stack[k].level < level})

\* The second loop consumes a line that holds a token
ConsumesContentLine ==
    /\ nested_step = "loop"
    /\ assembly'.i = assembly.i + 1
    /\ parse_pdu_line(pdu_lines[assembly.i + 1]) # <<>>

\* C26: while the tree is assembled the stack is a chain (levels growing by
\* exactly 1, each node a child of the one below); so the first token of a
\* consumed line is inserted at depth (line level - root level) below the
\* root body, and the line gets (line level - level of the stack top after
\* popping - 1) filler keys.
C26_StackIsChain ==
    /\ [](nested_step = "loop" => IsChain(assembly.stack, assembly.body))
    /\ [][ ConsumesContentLine =>
            LET line == pdu_lines[assembly.i + 1]
                level == get_indentation_level(line)
                values == parse_pdu_line(line)
                kept == KeptBy(assembly.stack, level)
                fillers == level - assembly.stack[kept].level - 1
                first == assembly'.stack[kept + fillers + 1]
            IN  /\ kept >= 1
                /\ SubSeq(assembly'.stack, 1, kept) = SubSeq(assembly.stack, 1, kept)
                /\ fillers >= 0
                /\ Len(assembly'.stack) = kept + fillers + Len(values)
                /\ first.level = level
                /\ Len(first.path) = level - assembly.stack[1].level
                /\ first.path[Len(first.path)] = values[1]
                /\ HasPath(assembly'.body, first.path)
                /\ \A k \in (kept + 1)..(kept + fillers) :
                      assembly'.stack[k].path[Len(assembly'.stack[k].path)]
                          \in {enumerate_key(n) : n \in 0..15}
         ]_vars

\* A line three levels below the root line was consumed: two filler keys
\* and its two tokens are on the stack
C26_Witness ==
    /\ nested_step = "loop"
    /\ assembly.i = 2
    /\ pdu_lines[2] = LINE_DEEP
    /\ Len(assembly.stack) = 5
    /\ assembly.stack[2].path = <<enumerate_key(0)>>
    /\ assembly.stack[3].path = <<enumerate_key(0), enumerate_key(0)>>
    /\ assembly.stack[4].level = 3

-----------------------------------------------------------------------------
(* C27: keys inserted by parse_nested_pdu *)

\* C27: parse_nested_pdu never overwrites a child: the key it inserts below
\* the stack top left by the popping (the first filler key of a consumed
\* line, or its first token when no filler is needed) is not yet a key of
\* that node, so what earlier lines put under it stays in the tree.
C27_InsertNeverOverwrites ==
    [][ ConsumesContentLine =>
            ~HasPath(assembly.body,
                     assembly'.stack[KeptBy(assembly.stack,
                         get_indentation_level(pdu_lines[assembly.i + 1])) + 1].path)
      ]_vars

-----------------------------------------------------------------------------
(* C28: groups and timestamp lines *)

TimestampLines(lines) == {k \in 1..Len(lines) : is_timestamp_line(lines[k])}

\* C28: in the segmenter's output every timestamp-header line of the input
\* is the first line of a group and no group holds a timestamp-header line
\* at a later position, also when the timestamp line follows a non-blank
\* line.
C28_GroupsRunFromTimestampToTimestamp ==
    /\ \A g \in 1..Len(yielded) : TimestampLines(yielded[g]) \subseteq {1}
    /\ split_done =>
          Cardinality(TimestampLines(log_lines))
              = Cardinality({g \in 1..Len(yielded) : 1 \in TimestampLines(yielded[g])})

-----------------------------------------------------------------------------
(* C29: %-prefixed lines *)

IsMetadataLine(line) == StartsWith(line, <<"%">>)

\* One of the first i lines is a content line: not blank and not %-prefixed
ContentSeen(lines, i) ==
    \E k \in 1..i : ~IsMetadataLine(lines[k]) /\ Strip(lines[k]) # <<>>

\* C29: a %-prefixed line is skipped exactly while no content line has been
\* seen; after the first content line it is appended to the current group
\* like any other line, and at a blank line it counts as the next non-blank
\* line of the lookahead.
C29_MetadataSkippedOnlyBeforeContent ==
    [][ /\ (AtLine /\ IsMetadataLine(log_lines[line_index + 1])) =>
              /\ yielded' = yielded
              /\ current_entry' =
                    IF ContentSeen(log_lines, line_index)
                    THEN Append(current_entry, log_lines[line_index + 1])
                    ELSE current_entry
        /\ (BlankLine /\ ContentSeen(log_lines, line_index)
              /\ NextNonBlank(log_lines, line_index) # None
              /\ IsMetadataLine(NextNonBlank(log_lines, line_index)[1])) =>
              /\ yielded' = yielded
              /\ current_entry' = Append(current_entry, log_lines[line_index + 1])
      ]_vars

-----------------------------------------------------------------------------
(* C30: the segmenter loses no line *)

\* The line at 0-based index i is one the segmenter is to leave out: a
\* %-prefixed line before the first content line, or a blank line whose
\* next non-blank line is a timestamp header
Removable(lines, i) ==
    \/ IsMetadataLine(lines[i + 1]) /\ ~ContentSeen(lines, i)
    \/ /\ Strip(lines[i + 1]) = <<>>
       /\ NextNonBlank(lines, i) # None
       /\ is_timestamp_line(NextNonBlank(lines, i)[1])

\* The line at 0-based index i is one the code leaves out: any %-prefixed
\* line, or a blank line whose lookahead finds a timestamp header
LeftOut(lines, i) ==
    \/ IsMetadataLine(lines[i + 1])
    \/ /\ Strip(lines[i + 1]) = <<>>
       /\ next_non_empty(lines, i) # None
       /\ is_timestamp_line(next_non_empty(lines, i)[1])

\* The first n lines without those that Out(lines, i) names, in their order
RECURSIVE KeptLines(_, _, _)
KeptLines(Out(_, _), lines, n) ==
    IF n = 0 THEN <<>>
    ELSE IF Out(lines, n - 1) THEN KeptLines(Out, lines, n - 1)
    ELSE Append(KeptLines(Out, lines, n - 1), lines[n])

RECURSIVE Flatten(_)
Flatten(groups) == IF groups = <<>> THEN <<>> ELSE Head(groups) \o Flatten(Tail(groups))

\* Decreases with every step of the segmenter
LinesLeft == (Len(log_lines) - line_index) + (IF split_done THEN 0 ELSE 1)

\* C30: the segmenter terminates and loses nothing: the yielded groups,
\* concatenated in order, are the input lines without the skipped
\* %-prefixed lines and the blank lines that end a group; no yielded group
\* is empty; the last group is yielded at the end of the input, with or
\* without a trailing blank line.
C30_SegmenterLosesNothing ==
    /\ [](/\ \A g \in 1..Len(yielded) : yielded[g] # <<>>
          /\ split_done =>
                /\ line_index = Len(log_lines)
                /\ Flatten(yielded) = KeptLines(Removable, log_lines, Len(log_lines))
                /\ current_entry # <<>> => yielded[Len(yielded)] = current_entry)
    /\ [][LinesLeft' < LinesLeft /\ 0 <= LinesLeft']_vars

\* What the code does keep: with every %-prefixed line and every blank line
\* whose lookahead finds a timestamp header left out, the groups yielded so
\* far and the current group are the lines read so far; no group is empty;
\* every step brings the end nearer.
LeftOutLinesAreTheOnlyLoss ==
    /\ [](/\ 0 <= line_index /\ line_index <= Len(log_lines)
          /\ \A g \in 1..Len(yielded) : yielded[g] # <<>>
          /\ Flatten(yielded) \o (IF split_done THEN <<>> ELSE current_entry)
                = KeptLines(LeftOut, log_lines, line_index)
          /\ (split_done /\ current_entry # <<>>) => yielded[Len(yielded)] = current_entry)
    /\ [][LinesLeft' < LinesLeft /\ 0 <= LinesLeft']_vars

====
